---- MODULE Spec2Model ----
(***************************************************************************)
(* A model of muxxy's matching core: the filename parser                   *)
(* (modules/parsers.py, modules/constants.py) and the match engine         *)
(* (modules/matcher.py), with the CLI's confidence filter (modules/cli.py).*)
(*                                                                         *)
(* Representation.                                                         *)
(*   - A Python str is a sequence of one-character strings; offsets into   *)
(*     it are 0-based as in Python (At(s, k) is s[k] of the source).       *)
(*   - A pathlib.Path is a record [stem, suffix]; None in place of a path  *)
(*     is NonePath.  None in place of an int is the definition None.       *)
(*   - A score or confidence is an integer number of hundredths (0.95 is   *)
(*     95); the source computes them in binary floating point from the     *)
(*     literals 0.6, 0.8, 0.15, 0.05, 0.2 and clamps with min(.., 0.95).   *)
(*   - A reason is the sequence of the pieces the source concatenates; it  *)
(*     is the empty string exactly when the sequence is empty.             *)
(*   - The regular expressions of constants.py are modelled by matching    *)
(*     operators over the characters; whitespace is the set WhiteSpace.    *)
(***************************************************************************)
EXTENDS Integers, Sequences, FiniteSets, TLC

VARIABLES
  filename,              \* SpecParse: the argument of extract_episode_info
  episode_info,          \* SpecParse: the tuple it returned, <<>> before the call
  score_call,            \* SpecScore: the arguments of one _score_match call
  score_result,          \* SpecScore: the triple it returned, NotScored before
  mkv_files,             \* Spec: the videos found (cli.py: mkv_files)
  sub_files,             \* Spec: the subtitles found
  args_strict,           \* Spec: args.strict
  result,                \* Spec: what a match_single call returned
  matches,               \* Spec: cli.py main's matches
  args_threshold,        \* Spec: args.confidence_threshold, in hundredths
  pc,                    \* Spec: where main is
  shift_call,            \* SpecShift: the arguments of shift_subtitle_timing and the file
  shift_out,             \* SpecShift: what the call did, NotShifted before
  resample_call,         \* SpecResample: the arguments of resample_ass_subtitle, the
                         \* document of the subtitle and the probe of the video
  resample_out,          \* SpecResample: what the call did, NotResampled before
  back_out,              \* SpecResample: what the call back to the first resolution did
  files,                 \* the files on disk: the input and what the calls wrote
  failed,                \* the step of the call that the environment failed, "none" if none
  transforms,            \* SpecPaths: the transform calls in flight and the paths they made
  similarity_call,       \* SpecSimilarity: the arguments of _string_similarity
  ratio,                 \* SpecSimilarity: what it returned, in hundredths, -1 before
  selected_files,        \* SpecPreview: the videos the last matching was given
  all_files,             \* SpecPreview: the subtitles the last matching was given
  strict_matching,       \* SpecPreview: config.strict_matching
  current_matches,       \* SpecPreview: MainWindow.current_matches, the list MatchPreview.matches too
  preview_files,         \* SpecPreview: MatchPreview.subtitle_files
  manual_overrides,      \* SpecPreview: MatchPreview.manual_overrides
  engine_matches,        \* SpecPreview: what match_batch returned to the last match_files
  last_op,               \* SpecPreview: the handler that ran last, and how it ended
  caller,                \* SpecBatch: who runs the muxing
  batch_matches,         \* SpecBatch: the matches handed over, each its having a subtitle now
  max_workers,           \* SpecBatch: max_workers of mux_batch
  batch_pc,              \* SpecBatch: where the thread that runs the muxing is
  engine_cancelled,      \* SpecBatch: MuxingEngine._cancelled
  valid_matches,         \* SpecBatch: valid_matches of mux_batch, as indices of the matches
  futures,               \* SpecBatch: the state of the future of each match
  work_queue,            \* SpecBatch: the work items no thread of the pool has taken yet
  cancel_next,           \* SpecBatch: the future the loop of f.cancel() comes to next, 0 outside
  yielded,               \* SpecBatch: the futures the loop over as_completed handled
  successes,             \* SpecBatch: successes of mux_batch and of main
  failures,              \* SpecBatch: failures of mux_batch and of main
  total,                 \* SpecBatch: total of mux_batch
  progress_calls,        \* SpecBatch: the calls of progress_callback so far
  cancel_called,         \* SpecBatch: cancel() was called in this run
  not_begun,             \* SpecBatch: the matches whose worker function had not begun at cancel()
  muxed,                 \* SpecBatch: the matches whose subtitle mux_single went on to process
  mux_call,              \* SpecMux: the match and the options of one mux_single call
  mux_out,               \* SpecMux: what the call did, NotMuxed before
  mux_done               \* SpecMux: the call has ended

parseVars == <<filename, episode_info>>
scoreVars == <<score_call, score_result>>
matchVars == <<mkv_files, sub_files, args_strict, result, matches, args_threshold, pc>>
transformVars == <<shift_call, shift_out, resample_call, resample_out, back_out,
                   files, failed>>
pathVars == <<transforms>>
ratioVars == <<similarity_call, ratio>>
guiVars == <<selected_files, all_files, strict_matching, current_matches, preview_files,
              manual_overrides, engine_matches, last_op>>
batchVars == <<caller, batch_matches, max_workers, batch_pc, engine_cancelled,
                valid_matches, futures, work_queue, cancel_next, yielded, successes,
                failures, total, progress_calls, cancel_called, not_begun, muxed>>
muxVars == <<mux_call, mux_out, mux_done>>
earlyVars == <<parseVars, scoreVars, matchVars, transformVars>>
lateVars == <<pathVars, ratioVars, guiVars, batchVars, muxVars>>
besidesPath == <<earlyVars, ratioVars, guiVars, batchVars, muxVars>>
besidesRatio == <<earlyVars, pathVars, guiVars, batchVars, muxVars>>
besidesGui == <<earlyVars, pathVars, ratioVars, batchVars, muxVars>>
besidesBatch == <<earlyVars, pathVars, ratioVars, guiVars, muxVars>>
besidesMux == <<earlyVars, pathVars, ratioVars, guiVars, batchVars>>
vars == <<parseVars, scoreVars, matchVars, transformVars, lateVars>>

(***************************************************************************)
(* Characters                                                              *)
(***************************************************************************)
\* Python's None where an int is expected (season, episode).
None == -1

\* The end of a search that found no match.
NoOffset == -1

DigitChars == <<"0", "1", "2", "3", "4", "5", "6", "7", "8", "9">>

UpperChars == <<"A", "B", "C", "D", "E", "F", "G", "H", "I", "J", "K", "L", "M",
                "N", "O", "P", "Q", "R", "S", "T", "U", "V", "W", "X", "Y", "Z">>

LowerChars == <<"a", "b", "c", "d", "e", "f", "g", "h", "i", "j", "k", "l", "m",
                "n", "o", "p", "q", "r", "s", "t", "u", "v", "w", "x", "y", "z">>

\* A character is a string: the character itself where a string here can
\* hold it (the printable ASCII characters, "\t", "\n", "\r", "\f"), and
\* otherwise "U+" with the code point in four or more hexadecimal digits:
\* "U+FF15" is FULLWIDTH DIGIT FIVE, "U+000B" is "\v".
HexChars == <<"0", "1", "2", "3", "4", "5", "6", "7", "8", "9",
              "A", "B", "C", "D", "E", "F">>

RECURSIVE Hex(_)
Hex(n) == IF n < 16 THEN HexChars[n + 1] ELSE Hex(n \div 16) \o HexChars[(n % 16) + 1]

\* The character of the code point n, n > 127.
Chr(n) == "U+" \o (IF n < 256 THEN "00" ELSE IF n < 4096 THEN "0" ELSE "") \o Hex(n)

\* \s of a str pattern, and what str.strip() strips: the characters for
\* which str.isspace() holds.
WhiteSpace ==
  {" ", "\t", "\n", "\r", "\f", "U+000B", "U+001C", "U+001D", "U+001E", "U+001F",
   "U+0085", "U+00A0", "U+1680", "U+2000", "U+2001", "U+2002", "U+2003", "U+2004",
   "U+2005", "U+2006", "U+2007", "U+2008", "U+2009", "U+200A", "U+2028", "U+2029",
   "U+202F", "U+205F", "U+3000"}

\* [0-9]
AsciiDigits == {DigitChars[i] : i \in 1..10}

\* \d of a str pattern is the category Nd of the Unicode database (14.0.0 in
\* the interpreter), which beside 0-9 holds runs of ten characters, the
\* digits 0 to 9 of a script in order.  The code point of the zero of each:
\* 1632 is ARABIC-INDIC DIGIT ZERO (U+0660), 65296 FULLWIDTH DIGIT ZERO
\* (U+FF10).
NdZeros ==
  {1632, 1776, 1984, 2406, 2534, 2662, 2790, 2918, 3046, 3174, 3302, 3430,
   3558, 3664, 3792, 3872, 4160, 4240, 6112, 6160, 6470, 6608, 6784, 6800,
   6992, 7088, 7232, 7248, 42528, 43216, 43264, 43472, 43504, 43600, 44016,
   65296, 66720, 68912, 69734, 69872, 69942, 70096, 70384, 70736, 70864,
   71248, 71360, 71472, 71904, 72016, 72784, 73040, 73120, 92768, 92864,
   93008, 120782, 120792, 120802, 120812, 120822, 123200, 123632, 125264,
   130032}

\* Each digit with the value int() gives it.
DigitPairs == {<<DigitChars[d + 1], d>> : d \in 0..9}
                \cup {<<Chr(z + d), d>> : z \in NdZeros, d \in 0..9}

Digits == {p[1] : p \in DigitPairs}

DigitMap == [c \in Digits |-> (CHOOSE p \in DigitPairs : p[1] = c)[2]]

\* The simple case folding of re.IGNORECASE, for the characters that match
\* an ASCII letter: the letter in either case, and beside them U+0130 and
\* U+0131 (dotted I, dotless i) for i, U+017F (long s) for s and U+212A
\* (KELVIN SIGN) for k.
FoldMap == [c \in {UpperChars[i] : i \in 1..26}
                    \cup {"U+0130", "U+0131", "U+017F", "U+212A"} |->
              CASE c \in {"U+0130", "U+0131"} -> "i"
                [] c = "U+017F" -> "s"
                [] c = "U+212A" -> "k"
                [] OTHER -> LowerChars[CHOOSE i \in 1..26 : UpperChars[i] = c]]

\* The characters c for which c.lower() is one ASCII character, and that
\* character: the upper-case ASCII letters and U+212A (KELVIN SIGN).
LowerMap == [c \in {UpperChars[i] : i \in 1..26} \cup {"U+212A"} |-> FoldMap[c]]

Letters == {LowerChars[i] : i \in 1..26}

\* \d
IsDigit(c) == c \in Digits

\* [0-9]
IsAsciiDigit(c) == c \in AsciiDigits

\* \s
IsSpace(c) == c \in WhiteSpace

DigitVal(c) == DigitMap[c]

\* Two characters are the same under re.IGNORECASE when they fold to the same.
Fold(c) == IF c \in DOMAIN FoldMap THEN FoldMap[c] ELSE c

\* c.lower() == l, for an ASCII character l.
LowersTo(c, l) ==
  /\ l \notin DOMAIN LowerMap
  /\ c = l \/ (c \in DOMAIN LowerMap /\ LowerMap[c] = l)

\* s.lower() == t, for a string t of ASCII characters: character by
\* character, since no character lowers to several ASCII characters.
LowerEquals(s, t) == Len(s) = Len(t) /\ \A i \in DOMAIN s : LowersTo(s[i], t[i])

\* re.sub(r'[^a-zA-Z0-9]', '', c.lower()) of one character c: U+0130 lowers
\* to i and U+0307, of which the i stays.
LowerAlnum(c) ==
  IF c \in AsciiDigits \cup Letters THEN <<c>>
  ELSE IF c \in DOMAIN LowerMap THEN <<LowerMap[c]>>
  ELSE IF c = "U+0130" THEN <<"i">>
  ELSE <<>>

\* s[k] of the source; "" past either end (it equals no character).
At(s, k) == IF k >= 0 /\ k < Len(s) THEN s[k + 1] ELSE ""

\* s[lo:hi] of the source.
Slice(s, lo, hi) == IF hi > lo THEN SubSeq(s, lo + 1, hi) ELSE <<>>

\* int(digits)
RECURSIVE ToInt(_)
ToInt(ds) ==
  IF ds = <<>> THEN 0
  ELSE 10 * ToInt(SubSeq(ds, 1, Len(ds) - 1)) + DigitVal(ds[Len(ds)])

\* str(n) for n >= 0
RECURSIVE Str(_)
Str(n) == IF n < 10 THEN <<DigitChars[n + 1]>>
          ELSE Str(n \div 10) \o <<DigitChars[(n % 10) + 1]>>

\* f"{n:02d}" for n >= 0
Fmt02d(n) == IF n < 10 THEN <<"0">> \o Str(n) ELSE Str(n)

\* The offset after the longest run of digits that starts at k (\d+ or \d*).
RECURSIVE DigitRunEnd(_, _)
DigitRunEnd(s, k) == IF IsDigit(At(s, k)) THEN DigitRunEnd(s, k + 1) ELSE k

\* The offset after the longest run of whitespace that starts at k (\s*).
RECURSIVE SpaceRunEnd(_, _)
SpaceRunEnd(s, k) == IF IsSpace(At(s, k)) THEN SpaceRunEnd(s, k + 1) ELSE k

\* The literal lit at offset k; under re.IGNORECASE when ci.
LitAt(s, k, lit, ci) ==
  \A i \in 1..Len(lit) :
    IF ci THEN Fold(At(s, k + i - 1)) = Fold(lit[i]) ELSE At(s, k + i - 1) = lit[i]

MinOf(S) == CHOOSE x \in S : \A y \in S : x <= y

MaxOf(S) == CHOOSE x \in S : \A y \in S : y <= x

\* The element of a one-element set.  The({F(x) : x \in {e}}) is F(e) with e
\* evaluated once: the way a local variable of the source is written here.
The(S) == CHOOSE x \in S : TRUE

\* The first offset of the character c at or after k, NoOffset if none.
FindChar(s, c, k) ==
  LET hits == {j \in k..(Len(s) - 1) : At(s, j) = c}
  IN  IF hits = {} THEN NoOffset ELSE MinOf(hits)

(***************************************************************************)
(* constants.py: EPISODE_PATTERNS                                          *)
(***************************************************************************)
\* EPISODE_PATTERNS[0] = S(\d+)E(\d+), IGNORECASE, at offset k.
SxxExxAt(s, k) ==
  /\ Fold(At(s, k)) = "s"
  /\ DigitRunEnd(s, k + 1) > k + 1
  /\ Fold(At(s, DigitRunEnd(s, k + 1))) = "e"
  /\ IsDigit(At(s, DigitRunEnd(s, k + 1) + 1))

\* EPISODE_PATTERNS[1] = (\d+)x(\d+), IGNORECASE, at offset k.
AxBAt(s, k) ==
  /\ IsDigit(At(s, k))
  /\ Fold(At(s, DigitRunEnd(s, k))) = "x"
  /\ IsDigit(At(s, DigitRunEnd(s, k) + 1))

\* EPISODE_PATTERNS[2] =  - (\d{1,2})(?:\s|$|\[), at offset k.
DashNumberAt(s, k) ==
  /\ LitAt(s, k, <<" ", "-", " ">>, FALSE)
  /\ DigitRunEnd(s, k + 3) - (k + 3) \in 1..2
  /\ LET a == DigitRunEnd(s, k + 3)
     IN  IsSpace(At(s, a)) \/ a = Len(s) \/ At(s, a) = "["

\* EPISODE_PATTERNS[3] = \[(\d{1,3})(?!\d)(?!p)(?!x\d)(?!bit)(?!-bit)\] at
\* offset k: the digits must run up to the "]", which passes every lookahead.
BracketNumberAt(s, k) ==
  /\ At(s, k) = "["
  /\ DigitRunEnd(s, k + 1) - (k + 1) \in 1..3
  /\ At(s, DigitRunEnd(s, k + 1)) = "]"

\* Where the digits of EPISODE_PATTERNS[4] start for a match at offset k: after
\* the optional E.
BareDigitsStart(s, k) == IF Fold(At(s, k)) = "e" THEN k + 1 ELSE k

\* (\d{1,3})(?![0-9xp]) of EPISODE_PATTERNS[4], IGNORECASE, from offset d:
\* the offset after the most digits, three at most, that no 0-9, x or p
\* follows; NoOffset when no number of digits does.  The digits are those of
\* \d, the look-ahead has the ASCII ones.
BareDigitsEnd(s, d) ==
  LET ends == {a \in (d + 1)..(d + 3) :
                 /\ a <= DigitRunEnd(s, d)
                 /\ ~IsAsciiDigit(At(s, a))
                 /\ Fold(At(s, a)) \notin {"x", "p"}}
  IN  IF ends = {} THEN NoOffset ELSE MaxOf(ends)

\* EPISODE_PATTERNS[4] = (?<![0-9])E?(\d{1,3})(?![0-9xp]), IGNORECASE, at
\* offset k.
BareNumberAt(s, k) ==
  /\ ~IsAsciiDigit(At(s, k - 1))
  /\ BareDigitsEnd(s, BareDigitsStart(s, k)) # NoOffset

\* EPISODE_PATTERNS[p] matches at offset k of s.
EpisodePatternAt(p, s, k) ==
  CASE p = 0 -> SxxExxAt(s, k)
    [] p = 1 -> AxBAt(s, k)
    [] p = 2 -> DashNumberAt(s, k)
    [] p = 3 -> BracketNumberAt(s, k)
    [] p = 4 -> BareNumberAt(s, k)

\* EPISODE_PATTERNS[p].search(s): the offset of the leftmost match, or NoOffset.
Search(s, p) ==
  LET hits == {k \in 0..Len(s) : EpisodePatternAt(p, s, k)}
  IN  IF hits = {} THEN NoOffset ELSE MinOf(hits)

(***************************************************************************)
(* constants.py: IGNORE_PATTERNS.  Each is \[[^\]]*X[^\]]*\]: a "[" , the  *)
(* text up to the first "]" after it, and X somewhere in that text.        *)
(***************************************************************************)
IgnoreWords3 == {<<"D", "V", "D", "R", "i", "p">>, <<"B", "D", "R", "i", "p">>,
                 <<"W", "e", "b", "R", "i", "p">>}

IgnoreWords4 == {<<"x", "2", "6", "4">>, <<"x", "2", "6", "5">>, <<"h", "e", "v", "c">>,
                 <<"a", "v", "c">>, <<"f", "l", "a", "c">>, <<"a", "c", "3">>,
                 <<"m", "p", "3">>}

\* The X of IGNORE_PATTERNS[p - 1] at offset i, ending before offset hi.
IgnoreCoreAt(s, p, i, hi) ==
  CASE p = 1 -> /\ IsDigit(At(s, i)) /\ At(s, i + 1) = "x" /\ IsDigit(At(s, i + 2))
                /\ i + 2 < hi
    [] p = 2 -> IsDigit(At(s, i)) /\ At(s, i + 1) = "p" /\ i + 1 < hi
    [] p = 3 -> \E w \in IgnoreWords3 : LitAt(s, i, w, TRUE) /\ i + Len(w) <= hi
    [] p = 4 -> \E w \in IgnoreWords4 : LitAt(s, i, w, TRUE) /\ i + Len(w) <= hi

\* IGNORE_PATTERNS[p - 1] matches at offset k.
IgnoreAt(s, p, k) ==
  /\ At(s, k) = "["
  /\ FindChar(s, "]", k + 1) # NoOffset
  /\ \E i \in (k + 1)..(FindChar(s, "]", k + 1) - 1) :
       IgnoreCoreAt(s, p, i, FindChar(s, "]", k + 1))

\* [(m.start(), m.end()) for m in IGNORE_PATTERNS[p - 1].finditer(s)], from
\* offset pos on: the leftmost match, then the matches after its end.
RECURSIVE IgnoreRanges(_, _, _)
IgnoreRanges(s, p, pos) ==
  LET hits == {k \in pos..(Len(s) - 1) : IgnoreAt(s, p, k)}
  IN  IF hits = {} THEN {}
      ELSE LET e == FindChar(s, "]", MinOf(hits) + 1) + 1
           IN  {<<MinOf(hits), e>>} \cup IgnoreRanges(s, p, e)

NumIgnorePatterns == 4

(***************************************************************************)
(* parsers.py: extract_episode_info                                        *)
(***************************************************************************)
\* Lines 13-17: the loop over IGNORE_PATTERNS.  skip_ranges is assigned [] in
\* the body of the loop, so each pattern's ranges replace the ones before.
RECURSIVE SkipRangesLoop(_, _, _)
SkipRangesLoop(s, p, skip_ranges) ==
  IF p > NumIgnorePatterns THEN skip_ranges
  ELSE SkipRangesLoop(s, p + 1, IgnoreRanges(s, p, 0))

skip_ranges(s) == SkipRangesLoop(s, 1, {})

\* any(start <= match.start() <= end for start, end in skip_ranges)
Skipped(ranges, start) == \E r \in ranges : r[1] <= start /\ start <= r[2]

NoEpisodeMatch == [pattern |-> NoOffset, start |-> NoOffset, season |-> None, episode |-> None]

\* The match extract_episode_info returns from: which of EPISODE_PATTERNS
\* (by its index), where it starts, and the numbers of its groups.
episode_match(s) ==
  LET skip == skip_ranges(s)
      m0 == Search(s, 0)
      m1 == Search(s, 1)
      m3 == Search(s, 3)
      m4 == Search(s, 4)
  IN  IF m0 # NoOffset /\ ~Skipped(skip, m0)
      THEN LET a == DigitRunEnd(s, m0 + 1)
           IN  [pattern |-> 0, start |-> m0,
                season |-> ToInt(Slice(s, m0 + 1, a)),
                episode |-> ToInt(Slice(s, a + 1, DigitRunEnd(s, a + 1)))]
      ELSE IF m1 # NoOffset /\ ~Skipped(skip, m1)
      THEN LET a == DigitRunEnd(s, m1)
           IN  [pattern |-> 1, start |-> m1,
                season |-> ToInt(Slice(s, m1, a)),
                episode |-> ToInt(Slice(s, a + 1, DigitRunEnd(s, a + 1)))]
      ELSE IF m3 # NoOffset /\ ~Skipped(skip, m3)
      THEN [pattern |-> 3, start |-> m3, season |-> None,
            episode |-> ToInt(Slice(s, m3 + 1, DigitRunEnd(s, m3 + 1)))]
      ELSE IF m4 # NoOffset /\ ~Skipped(skip, m4)
      THEN LET d == BareDigitsStart(s, m4)
           IN  [pattern |-> 4, start |-> m4, season |-> None,
                episode |-> ToInt(Slice(s, d, BareDigitsEnd(s, d)))]
      ELSE NoEpisodeMatch

\* extract_episode_info(filename) -> (season, episode)
extract_episode_info(s) == LET m == episode_match(s) IN <<m.season, m.episode>>

(***************************************************************************)
(* parsers.py: extract_show_name                                           *)
(***************************************************************************)
\* str.rstrip()
RECURSIVE StripEnd(_)
StripEnd(s) == IF s # <<>> /\ IsSpace(s[Len(s)]) THEN StripEnd(SubSeq(s, 1, Len(s) - 1)) ELSE s

\* str.strip()
Strip(s) == StripEnd(Slice(s, SpaceRunEnd(s, 0), Len(s)))

\* One of the separators that end the title in SHOW_NAME_RE, at offset e:
\* \s+-\s+ | \s+S\d+E\d+ | \s+\d+x\d+ | \s+E\d+ | \s+\[\d{1,3}\] | \s+\[\d{4}\]
\* (no IGNORECASE on this pattern).
SeparatorAt(s, e) ==
  /\ IsSpace(At(s, e))
  /\ LET w == SpaceRunEnd(s, e)
     IN  \/ At(s, w) = "-" /\ IsSpace(At(s, w + 1))
         \/ /\ At(s, w) = "S"
            /\ DigitRunEnd(s, w + 1) > w + 1
            /\ At(s, DigitRunEnd(s, w + 1)) = "E"
            /\ IsDigit(At(s, DigitRunEnd(s, w + 1) + 1))
         \/ /\ IsDigit(At(s, w))
            /\ At(s, DigitRunEnd(s, w)) = "x"
            /\ IsDigit(At(s, DigitRunEnd(s, w) + 1))
         \/ At(s, w) = "E" /\ IsDigit(At(s, w + 1))
         \/ /\ At(s, w) = "["
            /\ DigitRunEnd(s, w + 1) - (w + 1) \in 1..4
            /\ At(s, DigitRunEnd(s, w + 1)) = "]"

\* The "." of a pattern takes every character but "\n": whether it takes
\* each of s[lo:hi].
NoNewline(s, lo, hi) == \A j \in lo..(hi - 1) : At(s, j) # "\n"

\* (.+?)(?:separator) from offset p: the shortest title, at least one
\* character and none of them "\n", that a separator follows; <<start, end>>
\* of group 1, <<>> if none.
TitleFrom(s, p) ==
  LET hits == {e \in (p + 1)..(Len(s) - 1) : SeparatorAt(s, e) /\ NoNewline(s, p, e)}
  IN  IF hits = {} THEN <<>> ELSE <<p, MinOf(hits)>>

\* SHOW_NAME_RE from offset p, in the order the backtracking matcher tries:
\* (?:\[.+?\]\s*)* is greedy, so one more bracketed group first (its .+? up to
\* the nearest "]" first, its \s* as long as possible first), and the title
\* from p only when no such continuation matches.  No "\n" stands between
\* the brackets of a group.
RECURSIVE ShowNameFrom(_, _)
RECURSIVE GroupThenRest(_, _, _)
ShowNameFrom(s, p) ==
  LET q == FindChar(s, "]", p + 2)
      viaGroup == IF At(s, p) = "[" /\ q # NoOffset /\ NoNewline(s, p + 1, q)
                  THEN GroupThenRest(s, q, SpaceRunEnd(s, q + 1))
                  ELSE <<>>
  IN  IF viaGroup # <<>> THEN viaGroup ELSE TitleFrom(s, p)

\* The bracketed group closed by the "]" at offset q with its \s* ending at
\* offset k, then the rest of the pattern; on failure a shorter \s*, then a
\* later "]".
GroupThenRest(s, q, k) ==
  LET rest == ShowNameFrom(s, k)
  IN  IF rest # <<>> THEN rest
      ELSE IF k > q + 1 THEN GroupThenRest(s, q, k - 1)
      ELSE IF /\ FindChar(s, "]", q + 1) # NoOffset
              /\ NoNewline(s, q, FindChar(s, "]", q + 1))
           THEN GroupThenRest(s, FindChar(s, "]", q + 1),
                              SpaceRunEnd(s, FindChar(s, "]", q + 1) + 1))
           ELSE <<>>

\* re.sub(r'\[\d{1,3}\]', '', s) from offset k on.
RECURSIVE RemoveBracketNumbers(_, _)
RemoveBracketNumbers(s, k) ==
  IF k >= Len(s) THEN <<>>
  ELSE IF BracketNumberAt(s, k)
       THEN RemoveBracketNumbers(s, DigitRunEnd(s, k + 1) + 1)
       ELSE <<At(s, k)>> \o RemoveBracketNumbers(s, k + 1)

TechWords == {<<"b", "i", "t">>, <<"p">>, <<"h", "e", "v", "c">>, <<"h", "2", "6", "4">>,
              <<"h", "2", "6", "5">>, <<"f", "l", "a", "c">>, <<"a", "a", "c">>}

\* \[[^\]]*(?:bit|p|x\d+|HEVC|h26[45]|flac|aac)[^\]]*\], IGNORECASE, at offset k.
TechTagAt(s, k) ==
  /\ At(s, k) = "["
  /\ FindChar(s, "]", k + 1) # NoOffset
  /\ LET j == FindChar(s, "]", k + 1)
     IN  \E i \in (k + 1)..(j - 1) :
           \/ \E w \in TechWords : LitAt(s, i, w, TRUE) /\ i + Len(w) <= j
           \/ Fold(At(s, i)) = "x" /\ IsDigit(At(s, i + 1)) /\ i + 1 < j

\* re.sub of that pattern by '' from offset k on.
RECURSIVE RemoveTechTags(_, _)
RemoveTechTags(s, k) ==
  IF k >= Len(s) THEN <<>>
  ELSE IF TechTagAt(s, k)
       THEN RemoveTechTags(s, FindChar(s, "]", k + 1) + 1)
       ELSE <<At(s, k)>> \o RemoveTechTags(s, k + 1)

\* (.*?)$ from offset k: every character up to the end of the text, or up
\* to the "\n" that ends it, is one "." takes.
LineEnds(t, k) == NoNewline(t, k, Len(t) - 1)

\* \[.*?\]\s*(.*?)$ with its "]" at offset q, none of t[lo:q] a "\n": the
\* offset at which group 1 starts, after the longest \s*; with the next "]"
\* when the rest of the text is not one line; NoOffset when no "]" does.
RECURSIVE ReleaseRest(_, _, _)
ReleaseRest(t, lo, q) ==
  IF q = NoOffset \/ ~NoNewline(t, lo, q) THEN NoOffset
  ELSE IF LineEnds(t, SpaceRunEnd(t, q + 1)) THEN SpaceRunEnd(t, q + 1)
  ELSE ReleaseRest(t, q, FindChar(t, "]", q + 1))

\* Lines 48-56: the text before the first bracketed number, without a leading
\* release group (re.match(r'^\s*\[.*?\]\s*(.*?)$', show_part)).
ShowBeforeBracketNumber(s) ==
  LET show_part == Slice(s, 0, Search(s, 3))
      w == SpaceRunEnd(show_part, 0)
      k == IF At(show_part, w) = "["
           THEN ReleaseRest(show_part, w + 1, FindChar(show_part, "]", w + 1))
           ELSE NoOffset
  IN  IF k # NoOffset THEN Strip(Slice(show_part, k, Len(show_part)))
      ELSE Strip(show_part)

\* Lines 62-70: the fallback.
ShowFallback(s) ==
  LET clean_name == RemoveTechTags(RemoveBracketNumbers(s, 0), 0)
      rbracket == FindChar(clean_name, "]", 0)
  IN  IF At(clean_name, 0) = "[" /\ rbracket > 0
      THEN Strip(Strip(Slice(clean_name, rbracket + 1, Len(clean_name))))
      ELSE Strip(clean_name)

\* SHOW_NAME_RE.search(filename): the match from the first offset that has one.
ShowNameSearch(s) ==
  LET starts == {p \in 0..(Len(s) - 1) : ShowNameFrom(s, p) # <<>>}
  IN  IF starts = {} THEN <<>> ELSE ShowNameFrom(s, MinOf(starts))

\* extract_show_name(filename)
extract_show_name(s) ==
  IF /\ Search(s, 0) = NoOffset
     /\ Search(s, 1) = NoOffset
     /\ Search(s, 2) = NoOffset
     /\ Search(s, 3) # NoOffset
  THEN ShowBeforeBracketNumber(s)
  ELSE IF ShowNameSearch(s) # <<>>
  THEN LET title == ShowNameSearch(s) IN Strip(Slice(s, title[1], title[2]))
  ELSE ShowFallback(s)

(***************************************************************************)
(* matcher.py: Matcher._string_similarity                                  *)
(***************************************************************************)
\* re.sub(r'[^a-zA-Z0-9]', '', s.lower())
RECURSIVE Normalize(_)
Normalize(s) ==
  IF s = <<>> THEN <<>>
  ELSE LowerAlnum(s[1]) \o Normalize(Tail(s))

Max2(a, b) == IF a >= b THEN a ELSE b

\* One row of the longest-common-subsequence table: the row of the character
\* x from the row above (prev); cur holds the columns filled so far.
RECURSIVE LcsRow(_, _, _, _)
LcsRow(x, b, prev, cur) ==
  IF Len(cur) > Len(b) THEN cur
  ELSE LET j == Len(cur)
       IN  LcsRow(x, b, prev,
                  Append(cur, IF x = b[j] THEN prev[j] + 1
                              ELSE Max2(prev[j + 1], cur[j])))

RECURSIVE LcsRows(_, _, _)
LcsRows(a, b, prev) ==
  IF a = <<>> THEN prev[Len(b) + 1]
  ELSE LcsRows(Tail(a), b, LcsRow(a[1], b, prev, <<0>>))

\* The length of the longest common subsequence of a and b.
Lcs(a, b) == LcsRows(a, b, [j \in 1..(Len(b) + 1) |-> 0])

\* int(round(num / den)) of Python 3: to the nearest integer, a half to the
\* even one.
RoundHalfEven(num, den) ==
  LET q == num \div den
      r == num % den
  IN  IF 2 * r > den \/ (2 * r = den /\ q % 2 = 1) THEN q + 1 ELSE q

\* fuzz.token_sort_ratio on two strings already reduced to one token of
\* lower-case letters and digits: the ratio 2 * LCS / (len(a) + len(b)) as a
\* whole percentage.
token_sort_ratio(a, b) == RoundHalfEven(200 * Lcs(a, b), Len(a) + Len(b))

\* _string_similarity(str1, str2), in hundredths.
_string_similarity(str1, str2) ==
  LET norm1 == Normalize(str1)
      norm2 == Normalize(str2)
  IN  IF norm1 = <<>> \/ norm2 = <<>> THEN 0
      ELSE token_sort_ratio(norm1, norm2)

(***************************************************************************)
(* matcher.py: Matcher._score_match                                        *)
(***************************************************************************)
NonePath == [stem |-> <<>>, suffix |-> ""]

Min2(a, b) == IF a <= b THEN a ELSE b

\* sub.startswith(prefix)
StartsWith(s, prefix) == Len(s) >= Len(prefix) /\ SubSeq(s, 1, Len(prefix)) = prefix

\* EpisodeScore with the larger bonus given from the lower threshold on.
EpisodeScoreLowThreshold(episode_score, reason, video_show, sub_show) ==
  LET show_similarity == _string_similarity(video_show, sub_show)
      boosted == IF video_show # <<>> /\ sub_show # <<>> /\ show_similarity > 50
                 THEN episode_score + 15
                 ELSE episode_score
  IN  [score |-> Min2(boosted, 95), match_type |-> "episode", reason |-> reason]

\* Lines 147-156: the show-name bonus on an equal episode number, and the clamp.
EpisodeScore(episode_score, reason, video_show, sub_show) ==
  LET show_similarity == _string_similarity(video_show, sub_show)
      boosted == IF video_show # <<>> /\ sub_show # <<>> /\ show_similarity > 80
                 THEN episode_score + 15
                 ELSE IF video_show # <<>> /\ sub_show # <<>> /\ show_similarity > 50
                 THEN episode_score + 5
                 ELSE episode_score
      why == IF video_show # <<>> /\ sub_show # <<>> /\ show_similarity > 80
             THEN reason \o <<" with similar show name">>
             ELSE reason
  IN  [score |-> Min2(boosted, 95), match_type |-> "episode", reason |-> why]

\* FuzzyScore without the test that the video has no episode number.
FuzzyScoreAnyEpisode(video_episode, video_show, sub_show) ==
  LET similarity == _string_similarity(video_show, sub_show)
  IN  IF video_show # <<>> /\ sub_show # <<>> /\ similarity > 90
      THEN [score |-> 70, match_type |-> "fuzzy",
            reason |-> <<"High show name similarity (">> \o Str(similarity) \o <<"%)">>]
      ELSE IF video_show # <<>> /\ sub_show # <<>> /\ similarity > 70
      THEN [score |-> 50, match_type |-> "fuzzy",
            reason |-> <<"Moderate show name similarity (">> \o Str(similarity) \o <<"%)">>]
      ELSE [score |-> 0, match_type |-> "none", reason |-> <<"No matching criteria">>]

\* Lines 158-167: fuzzy show-name matching, else no match.
FuzzyScore(video_episode, video_show, sub_show) ==
  LET similarity == _string_similarity(video_show, sub_show)
  IN  IF video_show # <<>> /\ sub_show # <<>> /\ video_episode = None /\ similarity > 90
      THEN [score |-> 70, match_type |-> "fuzzy",
            reason |-> <<"High show name similarity (">> \o Str(similarity) \o <<"%)">>]
      ELSE IF video_show # <<>> /\ sub_show # <<>> /\ video_episode = None
              /\ similarity > 70
      THEN [score |-> 50, match_type |-> "fuzzy",
            reason |-> <<"Moderate show name similarity (">> \o Str(similarity) \o <<"%)">>]
      ELSE [score |-> 0, match_type |-> "none", reason |-> <<"No matching criteria">>]

\* Line 124: equal stems.
ExactScore == [score |-> 100, match_type |-> "exact", reason |-> <<"Exact filename match">>]

\* LangCodeScore at the score of an equal stem.
LangCodeScoreAsExact ==
  [score |-> 100, match_type |-> "exact", reason |-> <<"Exact match with language code">>]

\* Line 128: the subtitle's stem is the video's, a "." and more.
LangCodeScore ==
  [score |-> 99, match_type |-> "exact", reason |-> <<"Exact match with language code">>]

\* DifferentSeasonScore falling through to the score of an unknown season.
DifferentSeasonScoreFallThrough(video_season, sub_season) ==
  [score |-> 60, match_type |-> "episode",
   reason |-> <<"Episode match but different season (S">> \o Str(video_season)
                \o <<" vs S">> \o Str(sub_season) \o <<")">>]

\* Lines 141-143: the same episode of different seasons.
DifferentSeasonScore(video_season, sub_season) ==
  [score |-> 20, match_type |-> "episode",
   reason |-> <<"Episode match but different season (S">> \o Str(video_season)
                \o <<" vs S">> \o Str(sub_season) \o <<")">>]

\* Lines 122-167 of _score_match: the result from the video's and the
\* subtitle's season, episode and show name.
ScoreFrom(video_path, sub_path, video_season, video_episode, video_show, sub_season, sub_episode, sub_show) ==
  IF video_path.stem = sub_path.stem
  THEN ExactScore
  ELSE IF StartsWith(sub_path.stem, video_path.stem \o <<".">>)
  THEN LangCodeScore
  ELSE IF video_episode # None /\ sub_episode # None /\ video_episode = sub_episode
  THEN IF video_season # None /\ sub_season # None
       THEN IF video_season = sub_season
            THEN EpisodeScore(80,
                   <<"Episode S">> \o Fmt02d(video_season) \o <<"E">>
                     \o Fmt02d(video_episode) \o <<" match">>,
                   video_show, sub_show)
            ELSE DifferentSeasonScore(video_season, sub_season)
       ELSE EpisodeScore(60,
              <<"Episode E">> \o Fmt02d(video_episode) \o <<" match (no season info)">>,
              video_show, sub_show)
  ELSE FuzzyScore(video_episode, video_show, sub_show)

\* _score_match(video_path, sub_path, video_season, video_episode, video_show)
\* -> (score, match_type, reason); lines 119-120 parse the subtitle's stem.
_score_match(video_path, sub_path, video_season, video_episode, video_show) ==
  The({ScoreFrom(video_path, sub_path, video_season, video_episode, video_show,
                 sub_info[1], sub_info[2], sub_show) :
         sub_info \in {extract_episode_info(sub_path.stem)},
         sub_show \in {extract_show_name(sub_path.stem)}})

(***************************************************************************)
(* matcher.py: Matcher.match_single, Matcher.match_batch                   *)
(***************************************************************************)
MatchResult(video_path, subtitle_path, confidence, match_type, reason) ==
  [video_path |-> video_path, subtitle_path |-> subtitle_path,
   confidence |-> confidence, match_type |-> match_type, reason |-> reason]

\* Lines 73-76: the loop's variables before the first candidate.
NoBest == [best_match |-> NonePath, best_score |-> 0, best_reason |-> <<>>,
           best_type |-> "none"]

\* BestStep with >= for >: the last of the candidates that tie wins.
BestStepLastWins(best, sub_path, candidate) ==
  IF candidate.score >= best.best_score
  THEN [best_match |-> sub_path, best_score |-> candidate.score,
        best_reason |-> candidate.reason, best_type |-> candidate.match_type]
  ELSE best

\* Lines 86-90: one candidate's score against the best so far.
BestStep(best, sub_path, candidate) ==
  IF candidate.score > best.best_score
  THEN [best_match |-> sub_path, best_score |-> candidate.score,
        best_reason |-> candidate.reason, best_type |-> candidate.match_type]
  ELSE best

\* Lines 78-90: the loop over subtitle_candidates, from the i-th on.
RECURSIVE BestLoop(_, _, _, _, _, _, _)
BestLoop(video_path, subtitle_candidates, video_season, video_episode, video_show, i, best) ==
  IF i > Len(subtitle_candidates) THEN best
  ELSE The({BestLoop(video_path, subtitle_candidates, video_season, video_episode,
                     video_show, i + 1, next_best) :
              next_best \in
                {BestStep(best, subtitle_candidates[i], candidate) :
                   candidate \in {_score_match(video_path, subtitle_candidates[i],
                                               video_season, video_episode,
                                               video_show)}}})

StrictThreshold == 90

\* ResultFrom with the confidence of a strict rejection reset to 0.0.
ResultFromStrictZero(video_path, strict, best) ==
  IF strict /\ best.best_score < StrictThreshold
  THEN MatchResult(video_path, NonePath, 0, "none",
                   <<"Best match below strict threshold: ">> \o best.best_reason)
  ELSE MatchResult(video_path, best.best_match, best.best_score,
                   best.best_type, best.best_reason)

\* Lines 92-108 of match_single: the result from the best candidate.
ResultFrom(video_path, strict, best) ==
  IF strict /\ best.best_score < StrictThreshold
  THEN MatchResult(video_path, NonePath, best.best_score, "none",
                   <<"Best match below strict threshold: ">> \o best.best_reason)
  ELSE MatchResult(video_path, best.best_match, best.best_score,
                   best.best_type, best.best_reason)

\* match_single(video_path, subtitle_candidates, strict) -> MatchResult
match_single(video_path, subtitle_candidates, strict) ==
  IF subtitle_candidates = <<>>
  THEN MatchResult(video_path, NonePath, 0, "none", <<"No subtitle files found">>)
  ELSE The({ResultFrom(video_path, strict,
                       BestLoop(video_path, subtitle_candidates, video_info[1],
                                video_info[2], video_show, 1, NoBest)) :
              video_info \in {extract_episode_info(video_path.stem)},
              video_show \in {extract_show_name(video_path.stem)}})

\* Lines 196-199: the loop over video_files, from the i-th on.
RECURSIVE BatchLoop(_, _, _, _, _)
BatchLoop(video_files, subtitle_files, strict, i, results) ==
  IF i > Len(video_files) THEN results
  ELSE The({BatchLoop(video_files, subtitle_files, strict, i + 1,
                      Append(results, one)) :
              one \in {match_single(video_files[i], subtitle_files, strict)}})

\* A match_batch that gives each subtitle to one video only: the subtitle a
\* video takes is not a candidate of the videos after it.
RECURSIVE ExclusiveLoop(_, _, _, _, _)
ExclusiveLoop(video_files, subtitle_files, strict, i, results) ==
  IF i > Len(video_files) THEN results
  ELSE The({ExclusiveLoop(video_files,
                          SelectSeq(subtitle_files, LAMBDA s : s # one.subtitle_path),
                          strict, i + 1, Append(results, one)) :
              one \in {match_single(video_files[i], subtitle_files, strict)}})

match_batch_exclusive(video_files, subtitle_files, strict) ==
  ExclusiveLoop(video_files, subtitle_files, strict, 1, <<>>)

\* match_batch(video_files, subtitle_files, strict) -> List[MatchResult]
match_batch(video_files, subtitle_files, strict) ==
  BatchLoop(video_files, subtitle_files, strict, 1, <<>>)

\* MatchResult.is_confident(threshold)
is_confident(m, threshold) == m.confidence >= threshold

(***************************************************************************)
(* cli.py: main, the confidence filter                                     *)
(***************************************************************************)
\* FilterLowConfidence that also resets the kind of a match it removes.
FilterLowConfidenceResetKind(ms, confidence_threshold) ==
  [i \in 1..Len(ms) |->
     MatchResult(ms[i].video_path,
                 IF is_confident(ms[i], confidence_threshold)
                 THEN ms[i].subtitle_path ELSE NonePath,
                 ms[i].confidence,
                 IF is_confident(ms[i], confidence_threshold)
                 THEN ms[i].match_type ELSE "none",
                 ms[i].reason)]

\* Lines 152-161: the list comprehension that rebuilds every MatchResult.
FilterLowConfidence(ms, confidence_threshold) ==
  [i \in 1..Len(ms) |->
     MatchResult(ms[i].video_path,
                 IF is_confident(ms[i], confidence_threshold)
                 THEN ms[i].subtitle_path ELSE NonePath,
                 ms[i].confidence, ms[i].match_type, ms[i].reason)]

(***************************************************************************)
(* Python numbers.                                                         *)
(*                                                                         *)
(* An int that may leave 32 bits is a natural number written as the        *)
(* sequence of its limbs, the least significant first and the last one not *)
(* 0 (zero is the empty sequence), in base 2^15 (Base); on the way to and  *)
(* from decimal text the base is 10^4 (Myriad) or 10.                      *)
(*                                                                         *)
(* A float is an IEEE 754 double, [cls, neg, man, exp]: cls "num" for the  *)
(* number man * 2^exp with the sign neg, man an odd natural number below   *)
(* 2^53 in base 2^15 (0.0 and -0.0 have man <<>> and exp 0), cls "inf" for *)
(* the two infinities and cls "nan".  Every operation rounds its exact     *)
(* result to the nearest double, ties to the even significand, as the      *)
(* hardware does.                                                          *)
(***************************************************************************)
Base == 2^15

Myriad == 10^4

TwoPow == [k \in 0..30 |-> 2^k]

TenPow == [k \in 0..9 |-> 10^k]

Abs(n) == IF n < 0 THEN -n ELSE n

Larger(m, n) == IF m >= n THEN m ELSE n

\* The limb of weight base^(i - 1), 0 past the last one.
Limb(a, i) == IF i >= 1 /\ i <= Len(a) THEN a[i] ELSE 0

\* The limbs without the zeros at the high end.
BigNorm(a) ==
  The({SubSeq(x, 1, Cardinality({i \in DOMAIN x : \E j \in i..Len(x) : x[j] # 0})) :
         x \in {<<>> \o a}})

\* The limbs of 0 <= n < 2^31.
BigFromInt(n, base) ==
  IF n = 0 THEN <<>>
  ELSE IF n < base THEN <<n>>
  ELSE IF n < base * base THEN <<n % base, n \div base>>
  ELSE <<n % base, (n \div base) % base, n \div (base * base)>>

\* The number of a natural below 2^31.
BigToInt(a, base) == Limb(a, 1) + base * Limb(a, 2) + base * base * Limb(a, 3)

\* a < b
BigLess(a, b) ==
  \/ Len(a) < Len(b)
  \/ /\ Len(a) = Len(b)
     /\ \E i \in DOMAIN a : a[i] < b[i] /\ \A j \in (i + 1)..Len(a) : a[j] = b[j]

\* The carry out of the limbs 1..i of w, each at most 2 * base - 2, when
\* cin is carried into the first: a limb of base or more sends a carry on, a
\* limb of base - 1 hands on the carry it gets, a smaller limb none.
CarryOut(w, i, cin, base) ==
  IF \A k \in 1..i : w[k] = base - 1 THEN cin
  ELSE LET d == CHOOSE d \in 0..(i - 1) :
                  w[i - d] # base - 1 /\ \A k \in 0..(d - 1) : w[i - k] = base - 1
       IN  IF w[i - d] >= base THEN 1 ELSE 0

\* The Len(w) + 1 limbs of the number whose limbs before carrying are w.
Carried(w, cin, base) ==
  The({<<>> \o [i \in 1..(Len(v) + 1) |->
                  IF i <= Len(v) THEN (v[i] + CarryOut(v, i - 1, cin, base)) % base
                  ELSE CarryOut(v, Len(v), cin, base)] :
         v \in {<<>> \o w}})

\* a + b
BigAdd(a, b, base) ==
  The({BigNorm(Carried([i \in 1..Larger(Len(x), Len(y)) |-> Limb(x, i) + Limb(y, i)],
                       0, base)) :
         x \in {a}, y \in {b}})

\* a - b for a >= b: a plus the complement of b plus 1, less base^Len(a).
BigSub(a, b, base) ==
  The({BigNorm(SubSeq(Carried([i \in 1..Len(x) |-> x[i] + (base - 1 - Limb(y, i))],
                              1, base),
                      1, Len(x))) :
         x \in {a}, y \in {b}})

\* a * k for 0 <= k <= base
BigMulSmall(a, k, base) ==
  The({BigNorm(Carried([i \in 1..(Len(x) + 1) |->
                          ((Limb(x, i) * k) % base) + ((Limb(x, i - 1) * k) \div base)],
                       0, base)) :
         x \in {a}})

\* a * base^n
ShiftLimbs(a, n) == IF a = <<>> THEN <<>> ELSE [i \in 1..n |-> 0] \o a

\* a times the limbs lo..hi of b, at their weights.
RECURSIVE MulRows(_, _, _, _, _)
MulRows(a, b, lo, hi, base) ==
  IF lo = hi THEN ShiftLimbs(BigMulSmall(a, b[lo], base), lo - 1)
  ELSE BigAdd(MulRows(a, b, lo, (lo + hi) \div 2, base),
              MulRows(a, b, ((lo + hi) \div 2) + 1, hi, base), base)

\* a * b
BigMul(a, b, base) ==
  The({IF x = <<>> \/ y = <<>> THEN <<>>
       ELSE IF Len(x) >= Len(y) THEN MulRows(x, y, 1, Len(y), base)
       ELSE MulRows(y, x, 1, Len(x), base) :
         x \in {a}, y \in {b}})

\* a^n
RECURSIVE BigPow(_, _, _)
BigPow(a, n, base) ==
  IF n = 0 THEN <<1>>
  ELSE IF n = 1 THEN a
  ELSE The({IF n % 2 = 0 THEN BigMul(h, h, base) ELSE BigMul(BigMul(h, h, base), a, base) :
              h \in {BigPow(a, n \div 2, base)}})

\* The limbs lo..hi of a number in base from, as a number in base to.
RECURSIVE ConvertRange(_, _, _, _, _)
ConvertRange(a, lo, hi, from, to) ==
  IF lo = hi THEN BigFromInt(a[lo], to)
  ELSE BigAdd(BigMul(ConvertRange(a, ((lo + hi) \div 2) + 1, hi, from, to),
                     BigPow(BigFromInt(from, to), ((lo + hi) \div 2) - lo + 1, to), to),
              ConvertRange(a, lo, (lo + hi) \div 2, from, to), to)

\* A number in base from, in base to.
ConvertBase(a, from, to) ==
  The({IF x = <<>> THEN <<>> ELSE ConvertRange(x, 1, Len(x), from, to) : x \in {a}})

\* The decimal digits of a natural number in base 10^4, the least
\* significant first.
DecimalDigits(a) ==
  The({BigNorm([i \in 1..(4 * Len(x)) |->
                  (x[((i - 1) \div 4) + 1] \div TenPow[(i - 1) % 4]) % 10]) :
         x \in {a}})

\* The number in base 10^4 of decimal digits, the least significant first.
FromDecimalDigits(ds) ==
  The({BigNorm([i \in 1..((Len(x) + 3) \div 4) |->
                  Limb(x, 4 * i - 3) + 10 * Limb(x, 4 * i - 2)
                    + 100 * Limb(x, 4 * i - 1) + 1000 * Limb(x, 4 * i)]) :
         x \in {ds}})

\* The sequence s from its last element to its first.
Reversed(s) == The({[i \in 1..Len(x) |-> x[Len(x) + 1 - i]] : x \in {<<>> \o s}})

\* str(n) of a natural number in base 2^15.
BigStr(a) ==
  The({IF ds = <<>> THEN <<"0">> ELSE [i \in 1..Len(ds) |-> DigitChars[ds[Len(ds) + 1 - i] + 1]] :
         ds \in {DecimalDigits(ConvertBase(a, Base, Myriad))}})

\* The natural number, in base 2^15, that a string of digits writes.
BigOfDigits(s) ==
  ConvertBase(FromDecimalDigits(Reversed([i \in 1..Len(s) |-> DigitVal(s[i])])),
              Myriad, Base)

\* The number of binary digits of 0 <= n < 2^15.
BitLenSmall(n) == Cardinality({k \in 0..14 : TwoPow[k] <= n})

\* The number of binary digits of a natural number in base 2^15.
BitLen(a) == IF a = <<>> THEN 0 ELSE 15 * (Len(a) - 1) + BitLenSmall(a[Len(a)])

\* a * 2^s
Shl(a, s) ==
  The({ShiftLimbs(BigNorm([i \in 1..(Len(x) + 1) |->
                             ((Limb(x, i) * TwoPow[s % 15]) % Base)
                               + (Limb(x, i - 1) \div TwoPow[15 - (s % 15)])]),
                  s \div 15) :
         x \in {a}})

\* a \div 2^s
Shr(a, s) ==
  The({BigNorm([i \in 1..(Len(x) - (s \div 15)) |->
                  (Limb(x, i + (s \div 15)) \div TwoPow[s % 15])
                    + (Limb(x, i + (s \div 15) + 1) % TwoPow[s % 15]) * TwoPow[15 - (s % 15)]]) :
         x \in {a}})

\* The binary digit of weight 2^s.
Bit(a, s) == (Limb(a, (s \div 15) + 1) \div TwoPow[s % 15]) % 2

\* Whether the binary digits of a below 2^s are all 0.
LowZero(a, s) ==
  /\ \A i \in 1..(s \div 15) : Limb(a, i) = 0
  /\ Limb(a, (s \div 15) + 1) % TwoPow[s % 15] = 0

\* The number of zeros at the low end of the binary digits of a # 0.
TrailingZeros(a) ==
  The({15 * (i - 1) + Cardinality({k \in 1..14 : a[i] % TwoPow[k] = 0}) :
         i \in {MinOf({j \in DOMAIN a : a[j] # 0})}})

\* The digit of base 2^15 that r \div d is, for r < d * 2^15 and a d whose
\* last limb is 2^14 or more: the quotient of the leading limbs is it, or 1
\* or 2 more.
QuotDigit(r, d) ==
  The({IF ~BigLess(r, BigMulSmall(d, est, Base)) THEN est
       ELSE IF ~BigLess(r, BigMulSmall(d, est - 1, Base)) THEN est - 1
       ELSE est - 2 :
         est \in {LET lead == (Limb(r, Len(d) + 1) * Base + Limb(r, Len(d))) \div d[Len(d)]
                  IN  IF lead >= Base THEN Base - 1 ELSE lead}})

\* Long division of the limbs 1..i of n, brought down one by one from the
\* high end onto the remainder rem, by d: [quot, rem].
RECURSIVE DivLoop(_, _, _, _)
DivLoop(n, d, i, rem) ==
  IF i = 0 THEN [quot |-> <<>>, rem |-> rem]
  ELSE The({The({The({[quot |-> Append(rest.quot, q), rem |-> rest.rem] :
      rest \in {DivLoop(n, d, i - 1, BigSub(r, BigMulSmall(d, q, Base), Base))}}) :
      q \in {QuotDigit(r, d)}}) :
      r \in {BigNorm(<<n[i]>> \o rem)}})

\* n \div d and n % d for a d whose last limb is 2^14 or more.
BigDivMod(n, d) ==
  The({IF Len(x) < Len(y) THEN [quot |-> <<>>, rem |-> x]
       ELSE The({[quot |-> BigNorm(qr.quot), rem |-> qr.rem] :
                   qr \in {DivLoop(x, y, Len(x) - Len(y) + 1,
                                   BigNorm(SubSeq(x, Len(x) - Len(y) + 2, Len(x))))}}) :
         x \in {n}, y \in {d}})

Zero(neg) == [cls |-> "num", neg |-> neg, man |-> <<>>, exp |-> 0]

Inf(neg) == [cls |-> "inf", neg |-> neg, man |-> <<>>, exp |-> 0]

NaN == [cls |-> "nan", neg |-> FALSE, man |-> <<>>, exp |-> 0]

IsFinite(x) == x.cls = "num"

IsZero(x) == x.cls = "num" /\ x.man = <<>>

\* The double m * 2^e for a natural number m of at most 53 binary digits and
\* e >= -1074: inf from 2^1024 on.
Double(neg, m, e) ==
  The({IF x = <<>> THEN Zero(neg)
       ELSE IF BitLen(x) + e > 1024 THEN Inf(neg)
       ELSE The({[cls |-> "num", neg |-> neg, man |-> Shr(x, tz), exp |-> e + tz] :
                   tz \in {TrailingZeros(x)}}) :
         x \in {m}})

\* The double nearest to (q + f) * 2^e, for a natural number q and a
\* fraction 0 <= f < 1 that is above 0 exactly when sticky; q has 55 binary
\* digits or more when sticky.  The unit of the result is 2^u: 53 digits, or
\* fewer for a subnormal number.
RoundBits(neg, q, sticky, e) ==
  The({The({
    IF x = <<>> THEN Zero(neg)
    ELSE IF u <= e THEN Double(neg, x, e)
    ELSE IF /\ Bit(x, u - e - 1) = 1
            /\ sticky \/ ~LowZero(x, u - e - 1) \/ Bit(x, u - e) = 1
    THEN Double(neg, BigAdd(Shr(x, u - e), <<1>>, Base), u)
    ELSE Double(neg, Shr(x, u - e), u) :
    u \in {Larger(e + BitLen(x) - 53, -1074)}}) :
    x \in {q}})

\* The double nearest to (n / d) * 2^e, for natural numbers n and d # 0.
RoundRatio(neg, n, d, e) ==
  The({
    IF x = <<>> THEN Zero(neg)
    ELSE IF y = <<1>> THEN RoundBits(neg, x, FALSE, e)
    ELSE The({The({RoundBits(neg, qr.quot, qr.rem # <<>>, e - s) :
           qr \in {BigDivMod(Shl(x, s + 15 - BitLenSmall(y[Len(y)])),
                             Shl(y, 15 - BitLenSmall(y[Len(y)])))}}) :
           s \in {Larger(0, BitLen(y) + 55 - BitLen(x))}}) :
    x \in {n}, y \in {d}})

\* float(n) of an int below 2^31 in absolute value.
FloatOfInt(n) == RoundBits(n < 0, BigFromInt(Abs(n), Base), FALSE, 0)

\* a / b of two ints, b # 0 (long_true_divide): the quotient rounded once.
TrueDivide(a, b) ==
  RoundRatio((a < 0) # (b < 0), BigFromInt(Abs(a), Base), BigFromInt(Abs(b), Base), 0)

\* x * y of two floats.
Times(x, y) ==
  The({
    IF v.cls = "nan" \/ w.cls = "nan" THEN NaN
    ELSE IF v.cls = "inf" \/ w.cls = "inf"
    THEN (IF IsZero(v) \/ IsZero(w) THEN NaN ELSE Inf(v.neg # w.neg))
    ELSE RoundBits(v.neg # w.neg, BigMul(v.man, w.man, Base), FALSE, v.exp + w.exp) :
    v \in {x}, w \in {y}})

\* x / y of two floats, y not 0.0 (which raises ZeroDivisionError).
Divide(x, y) ==
  The({
    IF v.cls = "nan" \/ w.cls = "nan" THEN NaN
    ELSE IF v.cls = "inf" THEN (IF w.cls = "inf" THEN NaN ELSE Inf(v.neg # w.neg))
    ELSE IF w.cls = "inf" THEN Zero(v.neg # w.neg)
    ELSE RoundRatio(v.neg # w.neg, v.man, w.man, v.exp - w.exp) :
    v \in {x}, w \in {y}})

\* The absolute value of int(x) of a finite float, in base 2^15: the float
\* without its fraction.
Trunc(x) == IF x.exp >= 0 THEN Shl(x.man, x.exp) ELSE Shr(x.man, -x.exp)

\* int(x) of a finite float below 2^31 in absolute value.
IntOf(x) == The({IF x.neg THEN -n ELSE n : n \in {BigToInt(Trunc(x), Base)}})

\* str(int(x)) of a finite float.
TruncStr(x) ==
  The({(IF x.neg /\ n # <<>> THEN <<"-">> ELSE <<>>) \o BigStr(n) : n \in {Trunc(x)}})

\* What float() did not parse (ValueError).
NoFloat == [ok |-> FALSE, value |-> NaN]

Read(x) == [ok |-> TRUE, value |-> x]

\* The blanks int() and float() take around a number: those of str.isspace()
\* but U+001C to U+001F.
NumberSpace == WhiteSpace \ {"U+001C", "U+001D", "U+001E", "U+001F"}

RECURSIVE TrimNumberEnd(_)
TrimNumberEnd(s) ==
  IF s # <<>> /\ s[Len(s)] \in NumberSpace THEN TrimNumberEnd(SubSeq(s, 1, Len(s) - 1))
  ELSE s

RECURSIVE TrimNumber(_)
TrimNumber(s) ==
  IF s # <<>> /\ s[1] \in NumberSpace THEN TrimNumber(Tail(s)) ELSE TrimNumberEnd(s)

\* The offset after the digits that start at k, in the grammar of int() and
\* float(): digits of \d, one "_" allowed between two of them; k when no
\* digit stands at k.
RECURSIVE DigitPartEnd(_, _)
DigitPartEnd(s, k) ==
  IF ~IsDigit(At(s, k)) THEN k
  ELSE IF At(s, k + 1) = "_" /\ IsDigit(At(s, k + 2)) THEN DigitPartEnd(s, k + 2)
  ELSE IF IsDigit(At(s, k + 1)) THEN DigitPartEnd(s, k + 1)
  ELSE k + 1

\* The digits of s[lo:hi], without the "_" between them.
DigitsOf(s, lo, hi) == SelectSeq(Slice(s, lo, hi), IsDigit)

FloatInf == <<"i", "n", "f">>

FloatInfinity == <<"i", "n", "f", "i", "n", "i", "t", "y">>

FloatNan == <<"n", "a", "n">>

\* The number of digits of ds from its first digit that is not 0 on.
Significant(ds) == Cardinality({i \in DOMAIN ds : \E j \in 1..i : DigitVal(ds[j]) # 0})

\* The exponent that the digits ds write; 100000 for one of six digits or
\* more, which is as good as any: no double is that large or that small.
ExponentOf(ds) ==
  IF Significant(ds) > 5 THEN 100000
  ELSE ToInt(SubSeq(ds, Len(ds) - Significant(ds) + 1, Len(ds)))

\* The double of a decimal literal: the digits before and after the point
\* (body[0:a] and body[a+1:b]) and the exponent, exp its offset (NoOffset
\* when there is none).  The literal is the number of its digits times
\* 10^shift; it is rounded once, to inf from 10^309 on and to 0.0 below
\* 10^-324.
DecimalValue(negative, body, a, b, exp) ==
  The({The({
    IF Significant(ds) = 0 THEN Zero(negative)
    ELSE IF Significant(ds) + shift > 309 THEN Inf(negative)
    ELSE IF Significant(ds) + shift < -323 THEN Zero(negative)
    ELSE IF shift >= 0
    THEN RoundBits(negative,
                   BigMul(BigOfDigits(SubSeq(ds, Len(ds) - Significant(ds) + 1, Len(ds))),
                          BigPow(<<5>>, shift, Base), Base),
                   FALSE, shift)
    ELSE RoundRatio(negative,
                    BigOfDigits(SubSeq(ds, Len(ds) - Significant(ds) + 1, Len(ds))),
                    BigPow(<<5>>, -shift, Base), shift) :
    shift \in {LET signed == At(body, exp) \in {"-", "+"}
                   power == IF exp = NoOffset THEN 0
                            ELSE ExponentOf(DigitsOf(body, IF signed THEN exp + 1 ELSE exp,
                                                     Len(body)))
               IN  (IF exp # NoOffset /\ At(body, exp) = "-" THEN -power ELSE power)
                     - Len(DigitsOf(body, a + 1, b))}}) :
    ds \in {DigitsOf(body, 0, a) \o DigitsOf(body, a + 1, b)}})

\* float(s) of a string: blanks around it, a sign, and then inf, infinity or
\* nan in either case, or a decimal literal: digits with at most one ".", a
\* digit before or after it, and an exponent; anything else raises
\* ValueError.
ParseFloat(s) ==
  The({The({
    IF LowerEquals(body, FloatInf) \/ LowerEquals(body, FloatInfinity)
    THEN Read(Inf(At(t, 0) = "-"))
    ELSE IF LowerEquals(body, FloatNan) THEN Read(NaN)
    ELSE The({The({
      LET exp == IF At(body, b) \in {"e", "E"} THEN b + 1 ELSE NoOffset
          digits == IF exp = NoOffset THEN b
                    ELSE IF At(body, exp) \in {"-", "+"} THEN exp + 1 ELSE exp
          end == IF exp = NoOffset THEN b ELSE DigitPartEnd(body, digits)
      IN  IF /\ end = Len(body)
             /\ a > 0 \/ b > a + 1
             /\ exp # NoOffset => end > digits
          THEN Read(DecimalValue(At(t, 0) = "-", body, a, b, exp))
          ELSE NoFloat :
        b \in {IF At(body, a) = "." THEN DigitPartEnd(body, a + 1) ELSE a}}) :
      a \in {DigitPartEnd(body, 0)}}) :
    body \in {IF At(t, 0) \in {"-", "+"} THEN Tail(t) ELSE t}}) :
  t \in {TrimNumber(s)}})

\* The literal 23.976 of lines 208 and 250, and the like.
Literal(s) == ParseFloat(s).value

(***************************************************************************)
(* subtitles.py: ass_timestamp_to_ms, ms_to_ass_timestamp                  *)
(*                                                                         *)
(* A timestamp is a record [form, h, m, s, frac]: the text "h:mm:ss.cc" of *)
(* an ASS file (form "ass", frac its centiseconds), the text               *)
(* "hh:mm:ss,mmm" of an SRT file (form "srt", frac its milliseconds), or a *)
(* datetime.timedelta (form "timedelta": s whole seconds, frac the         *)
(* hundredths of a second its microseconds hold).                          *)
(***************************************************************************)
Time(form, h, m, s, frac) == [form |-> form, h |-> h, m |-> m, s |-> s, frac |-> frac]

\* int(timestamp.total_seconds() * 1000) for a timedelta of cs centiseconds:
\* total_seconds() is the int of its microseconds divided by 10**6, the
\* product with 1000 is rounded again, and int() cuts the fraction off.
TimedeltaMs(cs) ==
  IntOf(Times(RoundRatio(FALSE, BigMul(BigFromInt(cs, Base), <<10000>>, Base),
                         BigFromInt(1000000, Base), 0),
              FloatOfInt(1000)))

\* ass_timestamp_to_ms(timestamp)
ass_timestamp_to_ms(timestamp) ==
  IF timestamp.form = "timedelta"
  THEN TimedeltaMs(100 * timestamp.s + timestamp.frac)
  ELSE (timestamp.h * 3600 + timestamp.m * 60 + timestamp.s) * 1000
         + timestamp.frac * 10

\* ms_to_ass_timestamp(ms): "h:mm:ss.cc"
ms_to_ass_timestamp(ms) ==
  Time("ass", ms \div 3600000, (ms % 3600000) \div 60000,
       (ms % 60000) \div 1000, (ms % 1000) \div 10)

(***************************************************************************)
(* subtitles.py: shift_subtitle_timing                                     *)
(*                                                                         *)
(* A path is a record [dir, stem, suffix] of strings (sequences of         *)
(* characters).  What a subtitle file holds is a record [timer, events]:   *)
(* the Timer of the script info (Absent when the header has none; an SRT   *)
(* file has none) and the events, each a record [start, end] of            *)
(* timestamps.                                                             *)
(***************************************************************************)
\* An attribute the object does not have (hasattr is False).
Absent == <<"<absent>">>

\* constants.py line 10: TEMP_DIR = 'temp_mux'
TEMP_DIR == <<"t", "e", "m", "p", "_", "m", "u", "x">>

DotAss == <<".", "a", "s", "s">>

DotSsa == <<".", "s", "s", "a">>

DotSrt == <<".", "s", "r", "t">>

\* Line 208 and line 250: fps = 23.976
DefaultFps == Literal(<<"2", "3", ".", "9", "7", "6">>)

\* Lines 208-213: the fps of an ASS document.
Fps(doc) ==
  IF doc.timer # Absent /\ doc.timer # <<>> /\ ParseFloat(doc.timer).ok
  THEN ParseFloat(doc.timer).value
  ELSE DefaultFps

\* Lines 215-216 and 251-252: frames * frame_duration_ms, where
\* frame_duration_ms = 1000 / fps, for an fps that is not 0.0.
ShiftProduct(frames, fps) == Times(FloatOfInt(frames), Divide(FloatOfInt(1000), fps))

\* Whether lines 215-216 raise: 1000 / fps on 0.0 (ZeroDivisionError), int()
\* on nan (ValueError) and on inf (OverflowError).
ShiftRaises(frames, fps) == IsZero(fps) \/ ~IsFinite(ShiftProduct(frames, fps))

\* Lines 215-216 and 251-252: shift_ms = int(frames * frame_duration_ms)
ShiftMs(frames, fps) == IntOf(ShiftProduct(frames, fps))

\* Lines 222-228 and 260-266: the shift of one time, not below 0.
Shifted(ms, shift_ms) == IF ms + shift_ms < 0 THEN 0 ELSE ms + shift_ms

\* Lines 218-231: the loop over doc.events.
ShiftAssEvents(events, shift_ms) ==
  [i \in DOMAIN events |->
     [start |-> ms_to_ass_timestamp(Shifted(ass_timestamp_to_ms(events[i].start), shift_ms)),
      end |-> ms_to_ass_timestamp(Shifted(ass_timestamp_to_ms(events[i].end), shift_ms))]]

\* Lines 255-258: the milliseconds of the groups of one SRT time.
SrtMs(t) == (t.h * 3600 + t.m * 60 + t.s) * 1000 + t.frac

\* Lines 268-278: "hh:mm:ss,mmm" of a number of milliseconds.
SrtTime(ms) ==
  Time("srt", ms \div 3600000, (ms % 3600000) \div 60000,
       (ms % 60000) \div 1000, ms % 1000)

\* Lines 254-278: replace_timestamp on one "start --> end" line.
replace_timestamp(match, shift_ms) ==
  [start |-> SrtTime(Shifted(SrtMs(match.start), shift_ms)),
   end |-> SrtTime(Shifted(SrtMs(match.end), shift_ms))]

\* Line 280: pattern.sub(replace_timestamp, content)
ShiftSrtEvents(events, shift_ms) ==
  [i \in DOMAIN events |-> replace_timestamp(events[i], shift_ms)]

\* No file written.
NoFile == [exists |-> FALSE, complete |-> FALSE, timer |-> Absent, events |-> <<>>]

\* A file that open(.., 'w') made and whose writing failed.
PartialFile == [exists |-> TRUE, complete |-> FALSE, timer |-> Absent, events |-> <<>>]

WrittenFile(timer, events) ==
  [exists |-> TRUE, complete |-> TRUE, timer |-> timer, events |-> events]

\* What a call did: it returned a path or raised, and the file it left at
\* the path it made for its output, with the shift it applied.
Outcome(raised, path, made, file, shift_ms) ==
  [raised |-> raised, path |-> path, made |-> made, file |-> file,
   shift_ms |-> shift_ms]

\* Line 201: temp_dir_path / f"{sub_path.stem}_shifted_{unique_id}{sub_path.suffix}"
ShiftedPath(sub_path, unique_id) ==
  [dir |-> TEMP_DIR,
   stem |-> sub_path.stem \o <<"_", "s", "h", "i", "f", "t", "e", "d", "_">> \o unique_id,
   suffix |-> sub_path.suffix]

\* Lines 203-241: the ASS branch.  failure is the step the file system or the
\* parser fails at, "none" when none does.
ShiftAss(sub_path, frames, doc, failure, shifted_sub_path) ==
  IF failure \in {"open", "parse"} \/ ShiftRaises(frames, Fps(doc))
  THEN Outcome(FALSE, sub_path, shifted_sub_path, NoFile, 0)
  ELSE LET shift_ms == ShiftMs(frames, Fps(doc))
       IN  IF failure = "write"
           THEN Outcome(FALSE, sub_path, shifted_sub_path, PartialFile, shift_ms)
           ELSE Outcome(FALSE, shifted_sub_path, shifted_sub_path,
                        WrittenFile(doc.timer, ShiftAssEvents(doc.events, shift_ms)),
                        shift_ms)

\* Lines 243-290: the SRT branch.
ShiftSrt(sub_path, frames, content, failure, shifted_sub_path) ==
  IF failure = "open"
  THEN Outcome(FALSE, sub_path, shifted_sub_path, NoFile, 0)
  ELSE LET shift_ms == ShiftMs(frames, DefaultFps)
       IN  IF failure = "write"
           THEN Outcome(FALSE, sub_path, shifted_sub_path, PartialFile, shift_ms)
           ELSE Outcome(FALSE, shifted_sub_path, shifted_sub_path,
                        WrittenFile(content.timer, ShiftSrtEvents(content.events, shift_ms)),
                        shift_ms)

\* shift_subtitle_timing(sub_path, frames), on a file that holds content,
\* with the failure of the environment and the uuid drawn.
shift_subtitle_timing(sub_path, frames, content, failure, unique_id) ==
  IF frames = 0 THEN Outcome(FALSE, sub_path, sub_path, NoFile, 0)
  ELSE IF failure = "mkdir" THEN Outcome(TRUE, sub_path, sub_path, NoFile, 0)
  ELSE IF LowerEquals(sub_path.suffix, DotAss) \/ LowerEquals(sub_path.suffix, DotSsa)
  THEN ShiftAss(sub_path, frames, content, failure, ShiftedPath(sub_path, unique_id))
  ELSE IF LowerEquals(sub_path.suffix, DotSrt)
  THEN ShiftSrt(sub_path, frames, content, failure, ShiftedPath(sub_path, unique_id))
  ELSE Outcome(FALSE, sub_path, ShiftedPath(sub_path, unique_id), NoFile, 0)

(***************************************************************************)
(* video.py: get_video_resolution                                          *)
(*                                                                         *)
(* A probe is what running ffprobe on the video gives: [failure, width,    *)
(* height], failure "none" when ffprobe ran and printed a stream with the  *)
(* two numbers.                                                            *)
(***************************************************************************)
\* The failures the except clause of line 25 catches: a failed ffprobe run
\* (subprocess.SubprocessError) and an output without streams (IndexError).
CaughtProbeFailures == {"ffprobe_failed", "no_streams"}

\* The failures it does not catch: no ffprobe to run (FileNotFoundError from
\* subprocess.run) and an output that is not JSON (json.JSONDecodeError).
UncaughtProbeFailures == {"no_ffprobe", "bad_json"}

\* get_video_resolution(video_path): [raised, width, height]
get_video_resolution(probe) ==
  IF probe.failure \in UncaughtProbeFailures
  THEN [raised |-> TRUE, width |-> 0, height |-> 0]
  ELSE IF probe.failure \in CaughtProbeFailures
  THEN [raised |-> FALSE, width |-> 0, height |-> 0]
  ELSE [raised |-> FALSE, width |-> probe.width, height |-> probe.height]

(***************************************************************************)
(* subtitles.py: resample_ass_subtitle                                     *)
(*                                                                         *)
(* An ASS document is a record [play_res_x, play_res_y, styles, events]:   *)
(* the two PlayRes values of the script info as strings (Absent when the   *)
(* header has none), the styles, each a record of the strings of its       *)
(* fields, and the texts of the events.                                    *)
(***************************************************************************)
\* What int() did not parse (ValueError).
NoInt == [ok |-> FALSE, value |-> 0]

\* int(s) of a string: blanks around it, a sign, digits.
ParseInt(s) ==
  The({The({
    IF body # <<>> /\ DigitPartEnd(body, 0) = Len(body)
    THEN The({[ok |-> TRUE, value |-> IF At(t, 0) = "-" THEN -value ELSE value] :
                value \in {ToInt(DigitsOf(body, 0, Len(body)))}})
    ELSE NoInt :
    body \in {IF At(t, 0) \in {"-", "+"} THEN Tail(t) ELSE t}}) :
  t \in {TrimNumber(s)}})

\* Lines 315-316: int(getattr(script_info, 'PlayResX', 0) or 0)
PlayRes(attribute) ==
  IF attribute = Absent \/ attribute = <<>> THEN [ok |-> TRUE, value |-> 0]
  ELSE ParseInt(attribute)

\* Line 319 and line 321: the resolution of a script that names none.
DefaultWidth == 1280

DefaultHeight == 720

\* Lines 318-321: each dimension by itself.
OrigWidth(doc) == IF PlayRes(doc.play_res_x).value = 0 THEN DefaultWidth
                  ELSE PlayRes(doc.play_res_x).value

OrigHeight(doc) == IF PlayRes(doc.play_res_y).value = 0 THEN DefaultHeight
                   ELSE PlayRes(doc.play_res_y).value

\* str(n) of an int.
IntStr(n) == IF n < 0 THEN <<"-">> \o Str(-n) ELSE Str(n)

\* The exponent of the unit of a finite float x # 0: the weight of the last
\* of its 53 binary digits, 2^-1074 for a subnormal number.
UnitExp(x) == Larger(x.exp + BitLen(x.man) - 53, -1074)

\* Whether the float below x is half as far from x as the one above: x is a
\* power of 2 above the smallest normal number.
Narrow(x) == x.man = <<1>> /\ x.exp > -1022

\* Whether the decimal digits xd, cut after the digit of weight 10^t and with
\* that digit raised by 1 when up, stay within gap of xd: the lower t digits
\* are at most the gap, or lack at most the gap to 10^t; the bound itself
\* counts when closed.
Within(xd, t, up, gap, closed) ==
  IF t = 0 THEN ~up
  ELSE IF t > Len(gap) /\ Limb(xd, t) # (IF up THEN 9 ELSE 0) THEN FALSE
  ELSE The({(rem = gap /\ closed) \/ BigLess(rem, gap) :
              rem \in {IF up THEN BigSub(ShiftLimbs(<<1>>, t), BigNorm(SubSeq(xd, 1, t)), 10)
                       ELSE BigNorm(SubSeq(xd, 1, t))}})

\* The digits of the shortest decimal that float() reads back as x, for a
\* finite x # 0: [digits, point] stands for 0.digits * 10^point.  x and half
\* the distance to the floats next to it are written as whole numbers of
\* units of 10^-scale; the decimal is x cut after as few digits as stay
\* between the two halfway points, which count when the significand of x is
\* even; of two such decimals the nearer, and of two as near the even one.
ShortestDigits(x) ==
  The({The({The({The({The({
    The({[digits |-> [i \in 1..Len(sig) |-> DigitChars[sig[Len(sig) + 1 - i] + 1]],
          point |-> Len(high) + t + (IF w >= 0 THEN 0 ELSE w)] :
           sig \in {Reversed(BigNorm(Reversed(high)))}}) :
    high \in {LET down == Within(xd, t, FALSE, gap, x.exp > UnitExp(x))
                  up == Within(xd, t, TRUE, IF Narrow(x) THEN BigAdd(gap, gap, 10) ELSE gap,
                               x.exp > UnitExp(x))
                  more == \/ xd[t] > 5
                          \/ /\ xd[t] = 5
                             /\ (\E i \in 1..(t - 1) : xd[i] # 0) \/ Limb(xd, t + 1) % 2 = 1
              IN  IF t > 0 /\ up /\ (~down \/ more)
                  THEN BigAdd(SubSeq(xd, t + 1, Len(xd)), <<1>>, 10)
                  ELSE SubSeq(xd, t + 1, Len(xd))}}) :
    t \in {LET ok(s) == \/ Within(xd, s, FALSE, gap, x.exp > UnitExp(x))
                        \/ Within(xd, s, TRUE,
                                  IF Narrow(x) THEN BigAdd(gap, gap, 10) ELSE gap,
                                  x.exp > UnitExp(x))
           IN  Len(xd) - (CHOOSE c \in 0..Len(xd) :
                            ok(Len(xd) - c) /\ \A b \in 0..(c - 1) : ~ok(Len(xd) - b))}}) :
    xd \in {DecimalDigits(BigMul(ConvertBase(Shl(x.man, x.exp - w), Base, Myriad), p, Myriad))},
    gap \in {DecimalDigits(p)}}) :
    p \in {IF w >= 0 THEN BigPow(<<2>>, w, Myriad) ELSE BigPow(<<5>>, -w, Myriad)}}) :
    w \in {IF Narrow(x) THEN UnitExp(x) - 2 ELSE UnitExp(x) - 1}})

\* The exponent of the 'e' notation: a sign and two digits or more.
ExponentText(n) ==
  (IF n < 0 THEN <<"-">> ELSE <<"+">>) \o (IF Abs(n) < 10 THEN <<"0">> ELSE <<>>) \o Str(Abs(n))

\* repr of the digits 0.digits * 10^point (format_float_short): the 'e'
\* notation when point is above 16 or below -3, else the digits with the
\* point among them, zeros put before or after as needed.
ReprText(digits, point) ==
  IF point > 16 \/ point < -3
  THEN <<digits[1]>> \o (IF Len(digits) > 1 THEN <<".">> \o Tail(digits) ELSE <<>>)
         \o <<"e">> \o ExponentText(point - 1)
  ELSE IF point <= 0
  THEN <<"0", ".">> \o [i \in 1..(-point) |-> "0"] \o digits
  ELSE IF point >= Len(digits)
  THEN digits \o [i \in 1..(point - Len(digits)) |-> "0"] \o <<".", "0">>
  ELSE SubSeq(digits, 1, point) \o <<".">> \o SubSeq(digits, point + 1, Len(digits))

\* str(x) of a float: the shortest decimal that reads back as x.
FloatStr(x) ==
  The({IF v.cls = "nan" THEN FloatNan
       ELSE (IF v.neg THEN <<"-">> ELSE <<>>)
              \o (IF v.cls = "inf" THEN FloatInf
                  ELSE IF v.man = <<>> THEN <<"0", ".", "0">>
                  ELSE The({ReprText(sd.digits, sd.point) : sd \in {ShortestDigits(v)}})) :
         v \in {x}})

\* Lines 336-337: scale_x = video_width / orig_width, and scale_y.
Scale(video_size, orig_size) == TrueDivide(video_size, orig_size)

\* ScaleFloatField cut to an integer, as the margins are; inf and nan stay.
ScaleFloatFieldTruncated(field, scale) ==
  The({IF IsFinite(x) THEN TruncStr(x) ELSE FloatStr(x) :
         x \in {Times(ParseFloat(field).value, scale)}})

\* str(float(field) * scale)
ScaleFloatField(field, scale) == FloatStr(Times(ParseFloat(field).value, scale))

\* str(int(float(field) * scale))
ScaleIntField(field, scale) == TruncStr(Times(ParseFloat(field).value, scale))

\* int(float(field) * scale) raises on what float() does not take
\* (ValueError) and on a product that is inf or nan (OverflowError,
\* ValueError).
IntParses(field, scale) ==
  The({x.ok /\ IsFinite(Times(x.value, scale)) : x \in {ParseFloat(field)}})

\* The fields of a style that lines 340-350 read with float(), the margins
\* then with int().
StyleParses(style, scale_x, scale_y) ==
  /\ ParseFloat(style.fontsize).ok
  /\ IntParses(style.marginl, scale_x)
  /\ IntParses(style.marginr, scale_x)
  /\ IntParses(style.marginv, scale_y)
  /\ ParseFloat(style.outline).ok
  /\ ParseFloat(style.shadow).ok
  /\ style.spacing # Absent => ParseFloat(style.spacing).ok

\* Lines 340-350: one style, scaled.
ScaleStyle(style, scale_x, scale_y) ==
  [fontsize |-> ScaleFloatField(style.fontsize, scale_y),
   marginl |-> ScaleIntField(style.marginl, scale_x),
   marginr |-> ScaleIntField(style.marginr, scale_x),
   marginv |-> ScaleIntField(style.marginv, scale_y),
   outline |-> ScaleFloatField(style.outline, scale_y),
   shadow |-> ScaleFloatField(style.shadow, scale_y),
   spacing |-> IF style.spacing = Absent THEN Absent
               ELSE ScaleFloatField(style.spacing, scale_x)]

\* The text of a tag \name( at offset k.
TagOpenAt(text, k, name) == LitAt(text, k, <<"\\">> \o name \o <<"(">>, FALSE)

\* The groups of a tag from offset p on: n - 1 times ([^,]+), and ([^)]+)\).
\* [end, args]: the offset after the ")" and the texts of the groups; end is
\* NoOffset when the pattern does not match.
RECURSIVE TagGroups(_, _, _)
TagGroups(text, p, n) ==
  LET q == FindChar(text, IF n = 1 THEN ")" ELSE ",", p)
  IN  IF q = NoOffset \/ q = p THEN [end |-> NoOffset, args |-> <<>>]
      ELSE IF n = 1 THEN [end |-> q + 1, args |-> <<Slice(text, p, q)>>]
      ELSE LET rest == TagGroups(text, q + 1, n - 1)
           IN  [end |-> rest.end, args |-> <<Slice(text, p, q)>> \o rest.args]

\* r'\\name\(([^,]+),...,([^)]+)\)' with n groups, matched at offset k.
TagAt(text, k, name, n) ==
  IF TagOpenAt(text, k, name) THEN TagGroups(text, k + Len(name) + 2, n)
  ELSE [end |-> NoOffset, args |-> <<>>]

\* The lambda of a substitution: "\name(" the scaled arguments ")".
RECURSIVE ScaledArgs(_, _, _)
ScaledArgs(args, scales, i) ==
  IF i > Len(args) THEN <<>>
  ELSE (IF i > 1 THEN <<",">> ELSE <<>>)
         \o FloatStr(Times(ParseFloat(args[i]).value, scales[i]))
         \o ScaledArgs(args, scales, i + 1)

\* Whether float() takes every group of every match of the tag from offset k on.
RECURSIVE TagsParse(_, _, _, _)
TagsParse(text, k, name, scales) ==
  IF k >= Len(text) THEN TRUE
  ELSE LET m == TagAt(text, k, name, Len(scales))
       IN  IF m.end = NoOffset THEN TagsParse(text, k + 1, name, scales)
           ELSE /\ \A i \in 1..Len(m.args) : ParseFloat(m.args[i]).ok
                /\ TagsParse(text, m.end, name, scales)

\* The text from offset k on with every match of the tag replaced.
RECURSIVE SubTagText(_, _, _, _)
SubTagText(text, k, name, scales) ==
  IF k >= Len(text) THEN <<>>
  ELSE LET m == TagAt(text, k, name, Len(scales))
       IN  IF m.end = NoOffset
           THEN <<text[k + 1]>> \o SubTagText(text, k + 1, name, scales)
           ELSE <<"\\">> \o name \o <<"(">> \o ScaledArgs(m.args, scales, 1) \o <<")">>
                  \o SubTagText(text, m.end, name, scales)

\* What float() raised on.
Failed == [ok |-> FALSE, text |-> <<>>]

\* re.sub of the tag name with the scales of its arguments: [ok, text], ok
\* FALSE when float() raised ValueError on a group.
SubTag(text, name, scales) ==
  IF TagsParse(text, 0, name, scales)
  THEN [ok |-> TRUE, text |-> SubTagText(text, 0, name, scales)]
  ELSE Failed

\* The offset after the longest run of [0-9.] that starts at k.
RECURSIVE NumberRunEnd(_, _)
NumberRunEnd(s, k) ==
  IF IsAsciiDigit(At(s, k)) \/ At(s, k) = "." THEN NumberRunEnd(s, k + 1) ELSE k

\* r'\\fs([0-9.]+)' matched at offset k.
FsAt(text, k) ==
  LitAt(text, k, <<"\\", "f", "s">>, FALSE) /\ NumberRunEnd(text, k + 3) > k + 3

RECURSIVE FsParse(_, _)
FsParse(text, k) ==
  IF k >= Len(text) THEN TRUE
  ELSE IF FsAt(text, k)
  THEN /\ ParseFloat(Slice(text, k + 3, NumberRunEnd(text, k + 3))).ok
       /\ FsParse(text, NumberRunEnd(text, k + 3))
  ELSE FsParse(text, k + 1)

RECURSIVE SubFsText(_, _, _)
SubFsText(text, k, scale_y) ==
  IF k >= Len(text) THEN <<>>
  ELSE IF FsAt(text, k)
  THEN <<"\\", "f", "s">>
         \o FloatStr(Times(ParseFloat(Slice(text, k + 3, NumberRunEnd(text, k + 3))).value,
                           scale_y))
         \o SubFsText(text, NumberRunEnd(text, k + 3), scale_y)
  ELSE <<text[k + 1]>> \o SubFsText(text, k + 1, scale_y)

\* Lines 381-386: re.sub(r'\\fs([0-9.]+)', ...)
SubFs(text, scale_y) ==
  IF FsParse(text, 0) THEN [ok |-> TRUE, text |-> SubFsText(text, 0, scale_y)]
  ELSE Failed

TagPos == <<"p", "o", "s">>

TagMove == <<"m", "o", "v", "e">>

TagOrg == <<"o", "r", "g">>

TagClip == <<"c", "l", "i", "p">>

\* Lines 353-386: the five substitutions on the text of one event, each on
\* the text the one before it left.  (The test  '\\pos(' in event.text  and
\* its like only skip a substitution that would match nothing.)
ScaleEventText(text, scale_x, scale_y) ==
  The({The({The({The({IF clip.ok THEN SubFs(clip.text, scale_y) ELSE Failed :
    clip \in {IF org.ok
              THEN SubTag(org.text, TagClip, <<scale_x, scale_y, scale_x, scale_y>>)
              ELSE Failed}}) :
    org \in {IF move.ok THEN SubTag(move.text, TagOrg, <<scale_x, scale_y>>)
             ELSE Failed}}) :
    move \in {IF pos.ok
              THEN SubTag(pos.text, TagMove, <<scale_x, scale_y, scale_x, scale_y>>)
              ELSE Failed}}) :
    pos \in {SubTag(text, TagPos, <<scale_x, scale_y>>)}})

\* Line 331: temp_dir_path / f"{sub_path.stem}_resampled_{unique_id}.ass"
ResampledPath(sub_path, unique_id) ==
  [dir |-> TEMP_DIR,
   stem |-> sub_path.stem
              \o <<"_", "r", "e", "s", "a", "m", "p", "l", "e", "d", "_">> \o unique_id,
   suffix |-> DotAss]

\* A document written: the PlayRes of the video, the styles and events scaled.
Doc(play_res_x, play_res_y, styles, events) ==
  [play_res_x |-> play_res_x, play_res_y |-> play_res_y, styles |-> styles,
   events |-> events]

NoDoc == Doc(Absent, Absent, <<>>, <<>>)

\* What a call did: it raised or returned path; made is the path it made for
\* its output, exists whether a file is there when it ends, doc what that
\* file holds.
Resampled(raised, path, made, exists, doc) ==
  [raised |-> raised, path |-> path, made |-> made, exists |-> exists, doc |-> doc]

Unchanged(sub_path) == Resampled(FALSE, sub_path, sub_path, FALSE, NoDoc)

\* Lines 333-398: the resampling to video_width x video_height of a document
\* read and parsed.
ResampleDoc(sub_path, doc, video_width, video_height, failure, resampled_sub_path) ==
  The({IF \/ \E i \in DOMAIN doc.styles : ~StyleParses(doc.styles[i], scale_x, scale_y)
          \/ \E i \in DOMAIN events : ~events[i].ok
          \/ failure = "write"
       THEN Resampled(FALSE, sub_path, resampled_sub_path, FALSE, NoDoc)
       ELSE Resampled(FALSE, resampled_sub_path, resampled_sub_path, TRUE,
                      Doc(IntStr(video_width), IntStr(video_height),
                          [i \in DOMAIN doc.styles |->
                             ScaleStyle(doc.styles[i], scale_x, scale_y)],
                          [i \in DOMAIN events |-> events[i].text])) :
         scale_x \in {Scale(video_width, OrigWidth(doc))},
         scale_y \in {Scale(video_height, OrigHeight(doc))},
         events \in {[i \in DOMAIN doc.events |->
                        ScaleEventText(doc.events[i],
                                       Scale(video_width, OrigWidth(doc)),
                                       Scale(video_height, OrigHeight(doc)))]}})

\* ResampleTry without the test of lines 323-325: a script of the video's
\* resolution is resampled like any other.
ResampleTryAlways(sub_path, doc, video_width, video_height, force_resample, failure, unique_id) ==
  IF failure \in {"open", "parse"} THEN Unchanged(sub_path)
  ELSE IF ~PlayRes(doc.play_res_x).ok \/ ~PlayRes(doc.play_res_y).ok
  THEN Unchanged(sub_path)
  ELSE IF failure = "mkdir" THEN Unchanged(sub_path)
  ELSE ResampleDoc(sub_path, doc, video_width, video_height, failure,
                   ResampledPath(sub_path, unique_id))

\* Lines 310-398: the body of the try statement.
ResampleTry(sub_path, doc, video_width, video_height, force_resample, failure, unique_id) ==
  IF failure \in {"open", "parse"} THEN Unchanged(sub_path)
  ELSE IF ~PlayRes(doc.play_res_x).ok \/ ~PlayRes(doc.play_res_y).ok
  THEN Unchanged(sub_path)
  ELSE IF /\ ~force_resample
          /\ OrigWidth(doc) = video_width
          /\ OrigHeight(doc) = video_height
  THEN Unchanged(sub_path)
  ELSE IF failure = "mkdir" THEN Unchanged(sub_path)
  ELSE ResampleDoc(sub_path, doc, video_width, video_height, failure,
                   ResampledPath(sub_path, unique_id))

\* resample_ass_subtitle(sub_path, video_path, force_resample, no_resample),
\* on a subtitle file that holds doc and a video that probes as probe, with
\* the failure of the environment and the uuid drawn.
resample_ass_subtitle(sub_path, doc, probe, force_resample, no_resample, failure, unique_id) ==
  IF ~LowerEquals(sub_path.suffix, DotAss) \/ no_resample THEN Unchanged(sub_path)
  ELSE IF get_video_resolution(probe).raised
  THEN Resampled(TRUE, sub_path, sub_path, FALSE, NoDoc)
  ELSE IF get_video_resolution(probe).width = 0 \/ get_video_resolution(probe).height = 0
  THEN Unchanged(sub_path)
  ELSE ResampleTry(sub_path, doc, get_video_resolution(probe).width,
                   get_video_resolution(probe).height, force_resample, failure,
                   unique_id)

(***************************************************************************)
(* The file names the specifications draw their inputs from: release names *)
(* put together from a release group, a show name, an episode tag in one   *)
(* of the supported notations, technical tags and a language code.         *)
(***************************************************************************)
MaxSeason == 2
MaxEpisode == 2
MaxSubs == 2
MaxVideos == 2

ShowNames == {<<"S", "h", "o", "w">>, <<"S", "h", "a", "w">>, <<"K", "i", "n", "o">>, <<>>}

ReleaseGroups == {<<>>, <<"[", "G", "r", "p", "]", " ">>}

TechTags == {<<"[", "1", "0", "8", "0", "p", "]">>,
             <<"[", "9", "6", "0", "x", "7", "2", "0", "]">>,
             <<"[", "x", "2", "6", "4", "]">>,
             <<"[", "B", "D", "R", "i", "p", " ", "1", "2", "]">>}

TechTagsBefore == {<<>>} \cup {tag \o <<" ">> : tag \in TechTags}
TechTagsAfter == {<<>>} \cup {<<" ">> \o tag : tag \in TechTags}

LangCodes == {<<>>, <<".", "e", "n", "g">>}

SxxExxTags == {<<" ", "S">> \o Fmt02d(s) \o <<"E">> \o Fmt02d(e) :
                 s \in 1..MaxSeason, e \in 1..MaxEpisode}
AxBTags == {<<" ">> \o Str(s) \o <<"x">> \o Fmt02d(e) : s \in 1..MaxSeason, e \in 1..MaxEpisode}
DashTags == {<<" ", "-", " ">> \o Fmt02d(e) : e \in 1..MaxEpisode}
BracketTags == {<<" ", "[">> \o Fmt02d(e) \o <<"]">> : e \in 1..MaxEpisode}

\* Tags in characters outside ASCII: full-width digits, the long s that
\* re.IGNORECASE takes for S, and ideographic spaces around the dash.
UnicodeTags == {<<" ", "S", "U+FF10", "U+FF11", "E", "U+FF10", "U+FF12">>,
                <<" ", "U+017F", "0", "1", "e", "0", "2">>,
                <<"U+3000", "-", "U+3000", "0", "1">>}

EpisodeTags ==
  {<<>>} \cup SxxExxTags \cup AxBTags \cup DashTags \cup BracketTags \cup UnicodeTags

\* SpecParse: the names extract_episode_info is called on.
Filenames ==
  {g \o t1 \o n \o e \o t2 :
     g \in ReleaseGroups, t1 \in TechTagsBefore, n \in ShowNames,
     e \in EpisodeTags, t2 \in TechTagsAfter}

\* SpecScore: the stems of the videos and of the subtitles.
ScoreEpisodeTags == {<<>>} \cup SxxExxTags \cup DashTags \cup BracketTags

VideoStems == {n \o e : n \in ShowNames, e \in ScoreEpisodeTags} \ {<<>>}

SubStems ==
  {g \o n \o e \o l : g \in ReleaseGroups, n \in ShowNames, e \in ScoreEpisodeTags,
                     l \in LangCodes} \ {<<>>}

Video(stem) == [stem |-> stem, suffix |-> ".mkv"]

\* Spec: the videos and the subtitles a directory may hold.
ShowDash01 == <<"S", "h", "o", "w", " ", "-", " ", "0", "1">>

VideoUniverse ==
  {Video(ShowDash01), Video(<<"K", "i", "n", "o", " ", "-", " ", "0", "1">>),
   Video(<<"S", "h", "o", "w">>)}

SubtitleUniverse ==
  {[stem |-> ShowDash01, suffix |-> ".ass"],
   [stem |-> ShowDash01, suffix |-> ".srt"],
   [stem |-> ShowDash01 \o <<".", "e", "n", "g">>, suffix |-> ".ass"],
   [stem |-> <<"[", "G", "r", "p", "]", " ">> \o ShowDash01, suffix |-> ".srt"],
   [stem |-> <<"S", "h", "o", "w", " ", "[", "0", "1", "]">>, suffix |-> ".ass"],
   [stem |-> <<"K", "i", "n", "o", " ", "-", " ", "0", "2">>, suffix |-> ".ass"]}

\* The lists of at most n different elements of S: a directory listing.
RECURSIVE ListsUpTo(_, _)
ListsUpTo(S, n) ==
  IF n = 0 THEN {<<>>}
  ELSE LET shorter == ListsUpTo(S, n - 1)
       IN  shorter \cup {Append(l, x) : l \in {m \in shorter : Len(m) = n - 1},
                                        x \in S}

Distinct(l) == \A i, j \in 1..Len(l) : i # j => l[i] # l[j]

\* args.confidence_threshold: the default 0.7 and values around the scores.
DefaultConfidenceThreshold == 70

ConfidenceThresholds == {0, 50, DefaultConfidenceThreshold, 90, 100}

(***************************************************************************)
(* The subtitle files the transforms are run on.                           *)
(***************************************************************************)
MaxFrames == 6
MaxMargin == 3

SubsDir == <<"s", "u", "b", "s">>

SubStem == <<"e", "p", "0", "1">>

SubPath(suffix) == [dir |-> SubsDir, stem |-> SubStem, suffix |-> suffix]

\* uuid.uuid4(), its first 8 characters.
UniqueIds == {<<"0", "1", "2", "3", "a", "b", "c", "d">>}

\* The other uuid of a second call.
SecondUniqueId == <<"4", "5", "6", "7", "c", "d", "e", "f">>

\* --shift-frames: the frames of the example of the specification among them,
\* and a count whose shift at 24 fps is a whole number of milliseconds that the
\* product of floats falls short of.
ShiftFrames == ((-MaxFrames)..MaxFrames) \cup {-24, 24} \cup {-195, 195}

\* Timer values of a script info: none, empty, numbers, zero, not a number.
Timers == {Absent, <<>>, <<"2", "5">>, <<"2", "4">>, <<"1", "0", "0">>,
           <<"2", "3", ".", "9", "7", "6">>,
           <<"0">>, <<"f", "a", "s", "t">>, <<"U+FF12", "U+FF15">>, <<"i", "n", "f">>}

Event(start, end) == [start |-> start, end |-> end]

\* Events as ass.parse gives them (timedelta) and as text.
AssEvents ==
  {Event(Time("timedelta", 0, 0, 0, 0), Time("timedelta", 0, 0, 0, 4)),
   Event(Time("timedelta", 0, 0, 0, 4), Time("timedelta", 0, 0, 2, 1)),
   Event(Time("timedelta", 0, 0, 2, 1), Time("timedelta", 0, 0, 2, 3)),
   Event(Time("ass", 0, 0, 1, 0), Time("ass", 1, 2, 3, 4))}

SrtEvents ==
  {Event(Time("srt", 0, 0, 0, 0), Time("srt", 0, 0, 0, 40)),
   Event(Time("srt", 0, 0, 1, 0), Time("srt", 0, 0, 2, 500)),
   Event(Time("srt", 1, 2, 3, 4), Time("srt", 1, 2, 3, 999))}

\* The lists of one or two of the events of a set, and the empty one.
EventLists(events) ==
  {<<>>} \cup {<<e>> : e \in events} \cup {<<e, f>> : e \in events, f \in events}

Content(timer, events) == [timer |-> timer, events |-> events]

\* The shift_subtitle_timing calls: ASS and SSA files with and without a
\* Timer, SRT files, and a format that cannot be shifted.
ShiftCalls ==
  {[sub_path |-> SubPath(suffix), frames |-> frames, content |-> Content(timer, events)] :
     suffix \in {DotAss, <<".", "A", "S", "S">>, DotSsa}, frames \in ShiftFrames,
     timer \in {Absent}, events \in EventLists(AssEvents)}
  \cup
  {[sub_path |-> SubPath(DotAss), frames |-> frames, content |-> Content(timer, <<e>>)] :
     frames \in ShiftFrames, timer \in Timers, e \in AssEvents}
  \cup
  {[sub_path |-> SubPath(suffix), frames |-> frames, content |-> Content(Absent, events)] :
     suffix \in {DotSrt, <<".", "S", "R", "T">>}, frames \in ShiftFrames,
     events \in EventLists(SrtEvents)}
  \cup
  {[sub_path |-> SubPath(<<".", "v", "t", "t">>), frames |-> frames,
    content |-> Content(Absent, <<>>)] : frames \in ShiftFrames}

\* The steps of shift_subtitle_timing that the environment can fail.
ShiftFailures == {"none", "mkdir", "open", "parse", "write"}

Style(fontsize, marginl, marginr, marginv, outline, shadow, spacing) ==
  [fontsize |-> fontsize, marginl |-> marginl, marginr |-> marginr, marginv |-> marginv,
   outline |-> outline, shadow |-> shadow, spacing |-> spacing]

\* Styles: whole and fractional sizes, every margin up to MaxMargin, with and
\* without a spacing; one whose font size is not a number and one of numbers
\* in the forms float() reads.
Styles ==
  {Style(<<"2", "0">>, IntStr(m), IntStr(MaxMargin - m), IntStr(m),
         <<"2">>, <<"1", ".", "5">>, <<"0", ".", "5">>) : m \in 0..MaxMargin}
  \cup
  {Style(<<"3", "6", ".", "5">>, IntStr(m), IntStr(m), IntStr(MaxMargin - m),
         <<"0", ".", "5">>, <<"0">>, Absent) : m \in 0..MaxMargin}
  \cup
  {Style(<<"b", "i", "g">>, <<"1", "0">>, <<"1", "0">>, <<"1", "0">>,
         <<"2">>, <<"2">>, <<"0">>),
   Style(<<"i", "n", "f">>, <<"1", "_", "0">>, <<" ", "1", "0">>, <<"U+FF11", "U+FF10">>,
         <<"-", "0">>, <<"1", "e", "1">>, <<".", "5">>)}

\* A style of the largest and smallest floats: scaled up, its font size is
\* past the largest float; scaled down, its outline is below the smallest.
ExtremeStyle ==
  Style(<<"1", "e", "3", "0", "8">>, <<"0">>, <<"0">>, <<"0">>,
        <<"5", "e", "-", "3", "2", "4">>, <<"0", ".", "0", "0", "0", "0", "1">>, Absent)

\* A style of whole numbers.
PlainStyle ==
  Style(<<"2", "0">>, IntStr(MaxMargin), <<"0">>, IntStr(MaxMargin),
        <<"2">>, <<"1", ".", "5">>, <<"0", ".", "5">>)

\* The lists of styles: none, one, and PlainStyle before one of those whose
\* left margin is 0 or 10.
StyleLists ==
  {<<>>} \cup {<<s>> : s \in Styles}
    \cup {<<PlainStyle, t>> : t \in {u \in Styles : u.marginl \in {<<"0">>, <<"1", "0">>}}}

\* Texts of events: the tags resample_ass_subtitle rewrites, tags it does not
\* know, and forms of its tags that its patterns do not expect.
EventTexts ==
  {<<"H", "i">>,
   <<"{", "\\", "p", "o", "s", "(", "3", "2", "0", ",", "1", "8", "0", ")", "}", "H", "i">>,
   <<"{", "\\", "p", "o", "s", "(", "1", "0", ".", "5", ",", " ", "2", "0", ")", "}">>,
   <<"{", "\\", "m", "o", "v", "e", "(", "0", ",", "0", ",", "6", "4", ",", "3", "6", ")", "}">>,
   <<"{", "\\", "m", "o", "v", "e", "(", "0", ",", "0", ",", "6", "4", ",", "3", "6", ",",
     "0", ",", "5", "0", "0", ")", "}">>,
   <<"{", "\\", "o", "r", "g", "(", "6", "4", ",", "3", "6", ")", "\\", "f", "s", "2", "0", "}">>,
   <<"{", "\\", "c", "l", "i", "p", "(", "0", ",", "0", ",", "6", "4", ",", "3", "6", ")", "}">>,
   <<"{", "\\", "c", "l", "i", "p", "(", "m", " ", "0", " ", "0", " ", "l", " ", "8", " ",
     "8", ")", "}", "H", "i">>,
   <<"{", "\\", "f", "s", "1", "2", ".", "5", "\\", "f", "s", "c", "x", "5", "0", "\\",
     "b", "1", "}">>,
   <<"{", "\\", "f", "s", "p", "2", "\\", "b", "l", "u", "r", "1", "}", "H", "i">>,
   <<"{", "\\", "p", "o", "s", "(", "a", ",", "b", ")", "}">>,
   <<"{", "\\", "p", "o", "s", "(", "i", "n", "f", ",", "\n", "1", "e", "1", ")", "}">>}

TextLists ==
  {<<>>} \cup {<<t>> : t \in EventTexts}
    \cup {<<t, <<"{", "\\", "f", "s", "2", "0", "}", "H", "i">> >> : t \in EventTexts}

\* PlayResX and PlayResY of the script info, as numbers.
MainPlayRes ==
  {<<<<"1", "2", "8", "0">>, <<"7", "2", "0">> >>, <<<<"6", "4", "0">>, <<"3", "6", "0">> >>,
   <<<<"1", "9", "2", "0">>, <<"1", "0", "8", "0">> >>}

\* PlayResX and PlayResY of the script info: also absent, empty, zero, not
\* numbers, and numbers in other digits.
PlayResPairs ==
  MainPlayRes
  \cup
  {<<Absent, Absent>>, <<<<"0">>, <<"7", "2", "0">> >>, <<Absent, <<"3", "6", "0">> >>,
   <<<<"6", "4", "0">>, <<>> >>, <<<<"H", "D">>, <<"7", "2", "0">> >>,
   <<<<"U+FF16", "U+FF14", "U+FF10">>, <<"3", "_", "6", "0">> >>}

\* The scripts: every list of styles under the PlayRes values that are
\* numbers, every list of texts and a script of ExtremeStyle under 1280x720,
\* and a script without styles and one of PlainStyle under every PlayRes.
Docs ==
  {Doc(res[1], res[2], styles, <<>>) : res \in MainPlayRes, styles \in StyleLists}
  \cup
  {Doc(<<"1", "2", "8", "0">>, <<"7", "2", "0">>, <<ExtremeStyle>>, <<>>)}
  \cup
  {Doc(<<"1", "2", "8", "0">>, <<"7", "2", "0">>, <<>>, texts) : texts \in TextLists}
  \cup
  {Doc(res[1], res[2], styles, <<>>) : res \in PlayResPairs, styles \in {<<>>, <<PlainStyle>>}}

Probe(failure, width, height) == [failure |-> failure, width |-> width, height |-> height]

\* What ffprobe gives for the video when it gives a resolution.  Some of the
\* resolutions are powers of two times one another, and their scale factors
\* are floats without rounding; the others are not.
VideoSizes ==
  {<<1280, 720>>, <<640, 360>>, <<2560, 720>>, <<320, 1440>>, <<1920, 1080>>, <<704, 396>>}

\* What ffprobe gives for the video: a resolution, or one of its failures.
Probes ==
  {Probe("none", size[1], size[2]) : size \in VideoSizes}
  \cup
  {Probe(failure, 0, 0) : failure \in CaughtProbeFailures \cup UncaughtProbeFailures}

\* The resample_ass_subtitle calls: every script with every resolution of the
\* video; the scripts of PlainStyle with every failure of ffprobe and under
\* a suffix in capitals; and the calls that are not to resample.
ResampleCalls ==
  {[sub_path |-> SubPath(suffix), doc |-> doc, probe |-> probe,
    force_resample |-> force, no_resample |-> off] :
     suffix \in {DotAss}, doc \in Docs,
     probe \in {q \in Probes : q.failure = "none"},
     force \in BOOLEAN, off \in {FALSE}}
  \cup
  {[sub_path |-> SubPath(suffix), doc |-> doc, probe |-> probe,
    force_resample |-> force, no_resample |-> off] :
     suffix \in {DotAss, <<".", "A", "S", "S">>},
     doc \in {Doc(res[1], res[2], <<PlainStyle>>, <<>>) : res \in PlayResPairs},
     probe \in Probes, force \in BOOLEAN, off \in {FALSE}}
  \cup
  {[sub_path |-> SubPath(suffix), doc |-> doc, probe |-> probe,
    force_resample |-> force, no_resample |-> off] :
     suffix \in {DotAss, DotSrt}, doc \in {Doc(Absent, Absent, <<>>, <<>>)},
     probe \in Probes, force \in BOOLEAN, off \in BOOLEAN}

\* The steps of resample_ass_subtitle that the environment can fail.
ResampleFailures == {"none", "open", "parse", "mkdir", "write"}

(***************************************************************************)
(* The states of the specifications when they are not running.            *)
(***************************************************************************)
NotScored == [score |-> 0, match_type |-> "", reason |-> <<>>]

NoCall == [video_path |-> NonePath, sub_path |-> NonePath, video_season |-> None,
           video_episode |-> None, video_show |-> <<>>]

NoResult == MatchResult(NonePath, NonePath, 0, "", <<>>)

ParseIdle == filename = <<>> /\ episode_info = <<>>

ScoreIdle == score_call = NoCall /\ score_result = NotScored

MatchIdle ==
  /\ mkv_files = <<>> /\ sub_files = <<>> /\ args_strict = FALSE
  /\ result = NoResult /\ matches = <<>> /\ args_threshold = 0 /\ pc = "idle"

\* Python's None where a path of a subtitle is expected.
NoPath == [dir |-> <<>>, stem |-> <<>>, suffix |-> <<>>]

NoShiftCall == [sub_path |-> NoPath, frames |-> 0, content |-> Content(Absent, <<>>)]

NotShifted == Outcome(FALSE, NoPath, NoPath, NoFile, 0)

NoResampleCall ==
  [sub_path |-> NoPath, doc |-> NoDoc, probe |-> Probe("none", 0, 0),
   force_resample |-> FALSE, no_resample |-> FALSE]

NotResampled == Resampled(FALSE, NoPath, NoPath, FALSE, NoDoc)

TransformIdle ==
  /\ shift_call = NoShiftCall /\ shift_out = NotShifted
  /\ resample_call = NoResampleCall /\ resample_out = NotResampled
  /\ back_out = NotResampled
  /\ files = {} /\ failed = "none"

(***************************************************************************)
(* parsers.py: extract_lang_from_filename; engine.py: mux_single           *)
(***************************************************************************)
\* Python's None where a language code is expected: a value that is no str,
\* the empty str <<>> included (one element that is no character).
NoLang == <<"None">>

\* The str '' as a language: what --lang "" gives (cli.py lines 24-25 and
\* 170).  It is not None, so line 88 of engine.py keeps it.
EmptyLang == <<>>

\* path.name
Name(path) == path.stem \o path.suffix

\* LANG_RE = \.(?P<lang>[a-z]{2,3})\.[^.]+$ searched in path.name: [^.]+$
\* makes the second dot the last dot of the name, with text after it; lang
\* is what stands between it and the dot before, two or three lower-case
\* letters.
extract_lang_from_filename(path) ==
  LET dots == {i \in DOMAIN Name(path) : Name(path)[i] = "."}
  IN  IF Cardinality(dots) < 2 THEN NoLang
      ELSE LET last == CHOOSE i \in dots : \A j \in dots : j <= i
               before == CHOOSE i \in dots \ {last} : \A j \in dots \ {last} : j <= i
               lang == SubSeq(Name(path), before + 1, last - 1)
           IN  IF /\ last < Len(Name(path))
                  /\ Len(lang) \in 2..3
                  /\ \A i \in DOMAIN lang : lang[i] \in Letters
               THEN lang
               ELSE NoLang

\* What mux_single did: what it returned, and the subtitle and the language
\* it handed to mux_sub_and_fonts, if it came to that call.
Muxed(returned, called, sub_path, subtitle_lang) ==
  [returned |-> returned, called |-> called, sub_path |-> sub_path,
   subtitle_lang |-> subtitle_lang]

\* What the environment does to the rest of mux_single, after the two
\* transforms: nothing ("ok"); find_fonts_for_episode, find_chapters_file or
\* find_tags_file raises on the file system ("lookup", engine.py lines
\* 92-96); show_dir.mkdir raises ("mkdir", video.py line 241); mkvmerge is
\* not installed, so that subprocess.run raises FileNotFoundError
\* ("no_mkvmerge", video.py line 307); mkvmerge ends with a status other
\* than 0, the CalledProcessError of which mux_sub_and_fonts catches
\* ("exit_status", video.py lines 306-310).  Besides these,
\* mux_sub_and_fonts probes the video for the name of the output
\* (video.py line 233, parsers.py line 110, video.py line 60), and what
\* get_video_resolution does not catch leaves it.
MuxSteps == {"ok", "lookup", "mkdir", "no_mkvmerge", "exit_status"}

\* engine.py lines 41-119: mux_single.  call holds the match and the
\* options, env what the environment does: the failures of the two
\* transforms, their uuids, and the rest.  A match without subtitle gives
\* False at line 69.  An exception of a transform or of a lookup gives
\* False before mux_sub_and_fonts is called, one in mux_sub_and_fonts gives
\* False after, also when ffprobe is not installed; an exit status of
\* mkvmerge that is not 0 leaves no exception, and mux_single returns True
\* as it does when mkvmerge made the file.  Line 88 tests subtitle_lang is
\* None: only None gives way to the language of the name, every str of the
\* caller, '' too, goes to mux_sub_and_fonts as it is.
mux_single(call, env) ==
  IF call.subtitle_path = NoPath
  THEN Muxed(FALSE, FALSE, NoPath, NoLang)
  ELSE
  The({The({IF shifted.raised \/ resampled.raised \/ env.mux_step = "lookup"
            THEN Muxed(FALSE, FALSE, NoPath, NoLang)
            ELSE Muxed(/\ ~get_video_resolution(call.probe).raised
                       /\ env.mux_step \in {"ok", "exit_status"},
                       TRUE, resampled.path,
                       IF call.subtitle_lang = NoLang
                       THEN extract_lang_from_filename(resampled.path)
                       ELSE call.subtitle_lang) :
              resampled \in {resample_ass_subtitle(shifted.path, call.doc, call.probe,
                                                   call.force_resample, call.no_resample,
                                                   env.resample_failure,
                                                   env.resample_id)}}) :
         shifted \in {IF call.shift_frames # 0
                      THEN shift_subtitle_timing(call.subtitle_path, call.shift_frames,
                                                 call.content, env.shift_failure,
                                                 env.shift_id)
                      ELSE Outcome(FALSE, call.subtitle_path, call.subtitle_path,
                                   NoFile, 0)}})

NoMuxCall ==
  [subtitle_path |-> NoPath, subtitle_lang |-> NoLang, shift_frames |-> 0,
   content |-> Content(Absent, <<>>), doc |-> NoDoc, probe |-> Probe("none", 0, 0),
   force_resample |-> FALSE, no_resample |-> FALSE]

NotMuxed == Muxed(FALSE, FALSE, NoPath, NoLang)

PathIdle == transforms = <<>>

RatioIdle == similarity_call = <<>> /\ ratio = -1

GuiIdle ==
  /\ selected_files = <<>> /\ all_files = <<>> /\ strict_matching = FALSE
  /\ current_matches = <<>> /\ preview_files = <<>> /\ manual_overrides = <<>>
  /\ engine_matches = <<>> /\ last_op = "idle"

BatchIdle ==
  /\ caller = "" /\ batch_matches = <<>> /\ max_workers = 0 /\ batch_pc = "idle"
  /\ engine_cancelled = FALSE /\ valid_matches = {} /\ futures = <<>>
  /\ work_queue = <<>> /\ cancel_next = 0 /\ yielded = {}
  /\ successes = 0 /\ failures = 0 /\ total = 0 /\ progress_calls = <<>>
  /\ cancel_called = FALSE /\ not_begun = {} /\ muxed = {}

MuxIdle == mux_call = NoMuxCall /\ mux_out = NotMuxed /\ mux_done = FALSE

EarlyIdle == ParseIdle /\ ScoreIdle /\ MatchIdle /\ TransformIdle

BesidesPathIdle == EarlyIdle /\ RatioIdle /\ GuiIdle /\ BatchIdle /\ MuxIdle

BesidesRatioIdle == EarlyIdle /\ PathIdle /\ GuiIdle /\ BatchIdle /\ MuxIdle

BesidesGuiIdle == EarlyIdle /\ PathIdle /\ RatioIdle /\ BatchIdle /\ MuxIdle

BesidesBatchIdle == EarlyIdle /\ PathIdle /\ RatioIdle /\ GuiIdle /\ MuxIdle

BesidesMuxIdle == EarlyIdle /\ PathIdle /\ RatioIdle /\ GuiIdle /\ BatchIdle

LateIdle == PathIdle /\ RatioIdle /\ GuiIdle /\ BatchIdle /\ MuxIdle

(***************************************************************************)
(* SpecParse: extract_episode_info on every name of Filenames.             *)
(***************************************************************************)
InitParse ==
  /\ filename \in Filenames
  /\ episode_info = <<>>
  /\ ScoreIdle /\ MatchIdle /\ TransformIdle /\ LateIdle

ExtractEpisodeInfo ==
  /\ episode_info = <<>>
  /\ episode_info' = extract_episode_info(filename)
  /\ UNCHANGED <<filename, scoreVars, matchVars, transformVars, lateVars>>

NextParse == ExtractEpisodeInfo

SpecParse == InitParse /\ [][NextParse]_vars

(***************************************************************************)
(* SpecScore: one _score_match call on every pair of a video and a         *)
(* subtitle, with the arguments its callers compute (matcher.py lines      *)
(* 65-66 and 211-212).                                                     *)
(***************************************************************************)
InitScore ==
  /\ \E v \in VideoStems, s \in SubStems :
       score_call = [video_path |-> Video(v),
                     sub_path |-> [stem |-> s, suffix |-> ".ass"],
                     video_season |-> extract_episode_info(v)[1],
                     video_episode |-> extract_episode_info(v)[2],
                     video_show |-> extract_show_name(v)]
  /\ score_result = NotScored
  /\ ParseIdle /\ MatchIdle /\ TransformIdle /\ LateIdle

ScoreMatch ==
  /\ score_result = NotScored
  /\ score_result' = _score_match(score_call.video_path, score_call.sub_path,
                            score_call.video_season, score_call.video_episode,
                            score_call.video_show)
  /\ UNCHANGED <<score_call, parseVars, matchVars, transformVars, lateVars>>

NextScore == ScoreMatch

SpecScore == InitScore /\ [][NextScore]_vars

(***************************************************************************)
(* Spec: the matching of a directory, as cli.py's main runs it: match_batch*)
(* over the videos, then the confidence filter unless --force; and a       *)
(* match_single call on one of the videos.                                 *)
(***************************************************************************)
Init ==
  /\ mkv_files \in {l \in ListsUpTo(VideoUniverse, MaxVideos) : l # <<>> /\ Distinct(l)}
  /\ sub_files \in {l \in ListsUpTo(SubtitleUniverse, MaxSubs) : Distinct(l)}
  /\ args_strict \in BOOLEAN
  /\ result = NoResult
  /\ matches = <<>>
  /\ args_threshold = 0
  /\ pc = "start"
  /\ ParseIdle /\ ScoreIdle /\ TransformIdle /\ LateIdle

\* Matcher.match_single on one video and the subtitles found.
MatchSingle ==
  /\ pc = "start"
  /\ \E i \in 1..Len(mkv_files) :
       result' = match_single(mkv_files[i], sub_files, args_strict)
  /\ pc' = "single"
  /\ UNCHANGED <<mkv_files, sub_files, args_strict, matches, args_threshold,
                 parseVars, scoreVars,
                 transformVars, lateVars>>

\* Matcher.match_batch on the videos and the subtitles found, as cli.py line
\* 140 calls it: matches = matcher.match_batch(mkv_files, subtitle_files, ...)
\* main returns at lines 134-136 when no subtitle was found, before the call.
MatchBatch ==
  /\ pc = "start"
  /\ sub_files # <<>>
  /\ matches' = match_batch(mkv_files, sub_files, args_strict)
  /\ pc' = "matched"
  /\ UNCHANGED <<mkv_files, sub_files, args_strict, result, args_threshold,
                 parseVars, scoreVars,
                 transformVars, lateVars>>

\* cli.py lines 143-161, without --force: the low-confidence matches lose
\* their subtitle.
ConfidenceFilter ==
  /\ pc = "matched"
  /\ \E th \in ConfidenceThresholds :
       /\ args_threshold' = th
       /\ matches' = FilterLowConfidence(matches, th)
  /\ pc' = "filtered"
  /\ UNCHANGED <<mkv_files, sub_files, args_strict, result, parseVars, scoreVars,
                 transformVars, lateVars>>

\* cli.py line 143 with --force: the matches go on as they are.
ForceAll ==
  /\ pc = "matched"
  /\ pc' = "forced"
  /\ UNCHANGED <<mkv_files, sub_files, args_strict, result, matches,
                 args_threshold, parseVars, scoreVars,
                 transformVars, lateVars>>

Next == MatchSingle \/ MatchBatch \/ ConfidenceFilter \/ ForceAll

Spec == Init /\ [][Next]_vars

(***************************************************************************)
(* SpecShift: one shift_subtitle_timing call on every call of ShiftCalls,  *)
(* with every failure of the environment.                                  *)
(***************************************************************************)
OnDisk(path, file) == [path |-> path, file |-> file]

InitShift ==
  /\ shift_call \in ShiftCalls
  /\ shift_out = NotShifted
  /\ files = {OnDisk(shift_call.sub_path, shift_call.content)}
  /\ failed = "none"
  /\ resample_call = NoResampleCall /\ resample_out = NotResampled
  /\ back_out = NotResampled
  /\ ParseIdle /\ ScoreIdle /\ MatchIdle /\ LateIdle

ShiftSubtitleTiming ==
  /\ shift_call # NoShiftCall
  /\ shift_out = NotShifted
  /\ \E failure \in ShiftFailures, unique_id \in UniqueIds :
       /\ shift_out' = shift_subtitle_timing(shift_call.sub_path, shift_call.frames,
                                             shift_call.content, failure, unique_id)
       /\ files' = IF shift_out'.file.exists
                   THEN files \cup {OnDisk(shift_out'.made,
                                           Content(shift_out'.file.timer,
                                                   shift_out'.file.events))}
                   ELSE files
       /\ failed' = failure
  /\ UNCHANGED <<shift_call, resample_call, resample_out, back_out,
                 parseVars, scoreVars, matchVars, lateVars>>

NextShift == ShiftSubtitleTiming

SpecShift == InitShift /\ [][NextShift]_vars

(***************************************************************************)
(* SpecResample: one resample_ass_subtitle call on every call of           *)
(* ResampleCalls, with every failure of the environment; and, on the file  *)
(* the call wrote, a second, forced call that resamples it back to the     *)
(* resolution the script had.                                              *)
(***************************************************************************)
InitResample ==
  /\ resample_call \in ResampleCalls
  /\ resample_out = NotResampled
  /\ back_out = NotResampled
  /\ files = {OnDisk(resample_call.sub_path, resample_call.doc)}
  /\ failed = "none"
  /\ shift_call = NoShiftCall /\ shift_out = NotShifted
  /\ ParseIdle /\ ScoreIdle /\ MatchIdle /\ LateIdle

ResampleAssSubtitle ==
  /\ resample_call # NoResampleCall
  /\ resample_out = NotResampled
  /\ \E failure \in ResampleFailures, unique_id \in UniqueIds :
       /\ resample_out' = resample_ass_subtitle(resample_call.sub_path, resample_call.doc,
                                                resample_call.probe,
                                                resample_call.force_resample,
                                                resample_call.no_resample,
                                                failure, unique_id)
       /\ files' = IF resample_out'.exists
                   THEN files \cup {OnDisk(resample_out'.made, resample_out'.doc)}
                   ELSE files
       /\ failed' = failure
  /\ UNCHANGED <<resample_call, back_out, shift_call, shift_out,
                 parseVars, scoreVars, matchVars, lateVars>>

ResampleBack ==
  /\ resample_out # NotResampled
  /\ ~resample_out.raised
  /\ resample_out.exists
  /\ back_out = NotResampled
  /\ back_out' = resample_ass_subtitle(resample_out.path, resample_out.doc,
                                       Probe("none", OrigWidth(resample_call.doc),
                                             OrigHeight(resample_call.doc)),
                                       TRUE, FALSE, "none", SecondUniqueId)
  /\ files' = IF back_out'.exists
              THEN files \cup {OnDisk(back_out'.made, back_out'.doc)}
              ELSE files
  /\ UNCHANGED <<resample_call, resample_out, shift_call, shift_out, failed,
                 parseVars, scoreVars, matchVars, lateVars>>

NextResample == ResampleAssSubtitle \/ ResampleBack

SpecResample == InitResample /\ [][NextResample]_vars

(***************************************************************************)
(* SpecTransform: the two transforms, each on its calls.                   *)
(***************************************************************************)
InitTransform == InitShift \/ InitResample

NextTransform == NextShift \/ NextResample

SpecTransform == InitTransform /\ [][NextTransform]_vars

(***************************************************************************)
(* SpecPaths: two transform calls that write, one after the other or at    *)
(* the same time (mux_batch runs mux_single on several threads): each      *)
(* makes the path of its output, then writes it.                           *)
(***************************************************************************)
\* str(uuid.uuid4())[:8] of a call: 8 hexadecimal digits, drawn at random.
Tokens == UniqueIds \cup {SecondUniqueId}

\* Another directory of subtitles.
OtherDir == <<"m", "o", "r", "e">>

EpTwo == <<"e", "p", "0", "2">>

\* The calls that write an output: a shift by frames other than 0 of an
\* .ass or .srt file, a resample of an .ass file; among the inputs are files
\* of the same name in two directories and the output of an earlier call.
TransformCalls ==
  {[kind |-> "shift", sub_path |-> p] :
     p \in {SubPath(DotAss), SubPath(DotSrt),
            [dir |-> OtherDir, stem |-> SubStem, suffix |-> DotAss],
            [dir |-> SubsDir, stem |-> EpTwo, suffix |-> DotAss],
            ResampledPath(SubPath(DotAss), SecondUniqueId)}}
  \cup
  {[kind |-> "resample", sub_path |-> p] :
     p \in {SubPath(DotAss),
            [dir |-> OtherDir, stem |-> SubStem, suffix |-> DotAss],
            [dir |-> SubsDir, stem |-> EpTwo, suffix |-> DotAss],
            ShiftedPath(SubPath(DotAss), SecondUniqueId)}}

\* A call before it made its path.
NotStarted(call) ==
  [kind |-> call.kind, sub_path |-> call.sub_path, made |-> NoPath, written |-> FALSE]

InitPaths ==
  /\ transforms \in {<<NotStarted(a), NotStarted(b)>> : a, b \in TransformCalls}
  /\ BesidesPathIdle

\* subtitles.py lines 200-201 and 330-331: the call draws its token and
\* makes the path of its output.
MakeOutputPath(i) ==
  /\ transforms[i].made = NoPath
  /\ \E unique_id \in Tokens :
       transforms' =
         [transforms EXCEPT ![i].made =
            IF transforms[i].kind = "shift"
            THEN ShiftedPath(transforms[i].sub_path, unique_id)
            ELSE ResampledPath(transforms[i].sub_path, unique_id)]
  /\ UNCHANGED besidesPath

\* subtitles.py lines 233-234, 282-283 and 388-389: open(path, 'w') and the
\* writing of the output, whatever is at the path.
WriteOutput(i) ==
  /\ transforms[i].made # NoPath
  /\ ~transforms[i].written
  /\ transforms' = [transforms EXCEPT ![i].written = TRUE]
  /\ UNCHANGED besidesPath

NextPaths == \E i \in 1..2 : MakeOutputPath(i) \/ WriteOutput(i)

SpecPaths == InitPaths /\ [][NextPaths]_vars

(***************************************************************************)
(* SpecSimilarity: one _string_similarity call on every pair of strings of *)
(* SimilarityStrings: names of one and of two words, the two words in      *)
(* either order, with other case and other separators, and strings that    *)
(* normalize to the empty string.                                          *)
(***************************************************************************)
SimilarityStrings ==
  {<<"S", "h", "o", "w", " ", "K", "a", "i">>,
   <<"K", "a", "i", " ", "S", "h", "o", "w">>,
   <<"k", "a", "i", " ", " ", "s", "h", "o", "w">>,
   <<"S", "h", "o", "w", "-", "K", "a", "i">>,
   <<"S", "h", "o", "w">>,
   <<"K", "a", "i">>,
   <<"a", "b", " ", "b", "a">>,
   <<"b", "a", " ", "a", "b">>,
   <<"a", " ", "a">>,
   <<"!", "?">>,
   <<" ">>,
   <<>>,
   <<"S", "h", "o", "w", "U+3000", "U+212A", "a", "i">>,
   <<"U+0130", "U+017F">>}

InitSimilarity ==
  /\ similarity_call \in {<<str1, str2>> : str1, str2 \in SimilarityStrings}
  /\ ratio = -1
  /\ BesidesRatioIdle

StringSimilarity ==
  /\ ratio = -1
  /\ ratio' = _string_similarity(similarity_call[1], similarity_call[2])
  /\ UNCHANGED <<similarity_call, besidesRatio>>

NextSimilarity == StringSimilarity

SpecSimilarity == InitSimilarity /\ [][NextSimilarity]_vars

(***************************************************************************)
(* gui/match_preview.py and gui/main_window.py: the match preview          *)
(*                                                                         *)
(* MainWindow.match_files hands the list self.current_matches to           *)
(* MatchPreview.set_matches, which keeps the same list object as           *)
(* self.matches: the two names are one list of the same MatchResult        *)
(* objects, the variable current_matches.  The signal match_changed is     *)
(* connected to MainWindow.on_match_changed (main_window.py line 221) and  *)
(* delivered within emit().  A state of the two objects is a record of the *)
(* list and of the dict manual_overrides, a function from the videos that  *)
(* have an override to a path, NonePath for None.                          *)
(***************************************************************************)
Preview(ms, overrides) == [matches |-> ms, manual_overrides |-> overrides]

ManualReason == <<"Manually set by user">>

\* main_window.py lines 278-287: the first match of the video becomes a
\* manual one, in place.
on_match_changed(ms, video_path, subtitle_path) ==
  LET rows == {i \in DOMAIN ms : ms[i].video_path = video_path}
  IN  IF rows = {} THEN ms
      ELSE [ms EXCEPT ![MinOf(rows)] =
              MatchResult(video_path, subtitle_path,
                          IF subtitle_path # NonePath THEN 100 ELSE 0,
                          "manual", ManualReason)]

\* combo.itemData(index): item 0 is "(No subtitle)", then the subtitles.
ItemData(subtitles, index) == IF index = 0 THEN NonePath ELSE subtitles[index]

\* match_preview.py lines 109-114: the index the combo box of a row shows
\* since the last _update_table.
CurrentIndex(g, subtitles, row) ==
  LET match == g.matches[row]
      current_sub == IF match.video_path \in DOMAIN g.manual_overrides
                     THEN g.manual_overrides[match.video_path]
                     ELSE match.subtitle_path
      found == {i \in DOMAIN subtitles : subtitles[i] = current_sub}
  IN  IF current_sub = NonePath \/ found = {} THEN 0 ELSE MinOf(found)

\* dict[key] = value and del dict[key]
SetItem(overrides, key, value) ==
  [k \in DOMAIN overrides \cup {key} |-> IF k = key THEN value ELSE overrides[k]]

DelItem(overrides, key) == [k \in DOMAIN overrides \ {key} |-> overrides[k]]

\* match_preview.py lines 185-205: _on_subtitle_changed(row, index); rows
\* count from 1 here.
_on_subtitle_changed(g, subtitles, row, index) ==
  IF row > Len(g.matches) THEN g
  ELSE LET match == g.matches[row]
           subtitle_path == ItemData(subtitles, index)
       IN  Preview(on_match_changed(g.matches, match.video_path, subtitle_path),
                   IF subtitle_path # match.subtitle_path
                   THEN SetItem(g.manual_overrides, match.video_path, subtitle_path)
                   ELSE IF match.video_path \in DOMAIN g.manual_overrides
                   THEN DelItem(g.manual_overrides, match.video_path)
                   ELSE g.manual_overrides)

\* match_preview.py lines 207-221: _clear_match(row).  setCurrentIndex(0)
\* emits currentIndexChanged, and so runs _on_subtitle_changed(row, 0), when
\* the combo box showed another index.
_clear_match(g, subtitles, row) ==
  IF row > Len(g.matches) THEN g
  ELSE LET match == g.matches[row]
           cleared == Preview(g.matches, SetItem(g.manual_overrides, match.video_path, NonePath))
           shown == IF CurrentIndex(g, subtitles, row) # 0
                    THEN _on_subtitle_changed(cleared, subtitles, row, 0)
                    ELSE cleared
       IN  Preview(on_match_changed(shown.matches, match.video_path, NonePath),
                   shown.manual_overrides)

\* match_preview.py lines 223-230: clear_all_matches, from the match i on.
RECURSIVE ClearAllLoop(_, _)
ClearAllLoop(g, i) ==
  IF i > Len(g.matches) THEN g
  ELSE ClearAllLoop(Preview(on_match_changed(g.matches, g.matches[i].video_path, NonePath),
                            SetItem(g.manual_overrides, g.matches[i].video_path, NonePath)),
                    i + 1)

clear_all_matches(g) == ClearAllLoop(g, 1)

\* match_preview.py lines 237-238: the loop of auto_match_all, from the
\* match i on: it emits the subtitle the match object holds now.
RECURSIVE AutoMatchLoop(_, _)
AutoMatchLoop(ms, i) ==
  IF i > Len(ms) THEN ms
  ELSE AutoMatchLoop(on_match_changed(ms, ms[i].video_path, ms[i].subtitle_path), i + 1)

\* match_preview.py lines 232-241: auto_match_all
auto_match_all(g) == Preview(AutoMatchLoop(g.matches, 1), <<>>)

\* get_matches with the confidence of a manual match always 1.0.
get_matches_confident(g) ==
  [i \in DOMAIN g.matches |->
     LET match == g.matches[i]
     IN  IF match.video_path \in DOMAIN g.manual_overrides
         THEN MatchResult(match.video_path, g.manual_overrides[match.video_path],
                          100, "manual", ManualReason)
         ELSE match]

\* match_preview.py lines 79-89: set_matches keeps the list it is given and
\* empties the dict.
set_matches(g, ms) == Preview(ms, <<>>)

\* match_preview.py lines 243-259: get_matches
get_matches(g) ==
  [i \in DOMAIN g.matches |->
     LET match == g.matches[i]
     IN  IF match.video_path \in DOMAIN g.manual_overrides
         THEN MatchResult(match.video_path, g.manual_overrides[match.video_path],
                          IF g.manual_overrides[match.video_path] # NonePath
                          THEN 100 ELSE 0,
                          "manual", ManualReason)
         ELSE match]

(***************************************************************************)
(* SpecPreview: the main window; the user selects videos and matches them  *)
(* with the subtitles of the directory, picks subtitles in the combo boxes, *)
(* clears rows, clears all, reverts to the automatic matches and matches   *)
(* again, with the same or another selection, in any order.                *)
(***************************************************************************)
KinoDash01 == <<"K", "i", "n", "o", " ", "-", " ", "0", "1">>

KinoDash02 == <<"K", "i", "n", "o", " ", "-", " ", "0", "2">>

\* The videos and the subtitles of the two directories, in the order of
\* sorted() on their paths (file_browser.py lines 132 and 147).
PreviewVideos == <<Video(KinoDash01), Video(ShowDash01)>>

PreviewSubtitles ==
  <<[stem |-> KinoDash02, suffix |-> ".ass"],
    [stem |-> ShowDash01, suffix |-> ".ass"],
    [stem |-> ShowDash01 \o <<".", "e", "n", "g">>, suffix |-> ".ass"]>>

\* The files of a sorted listing at the places picked, in the listing's order.
Picked(listing, picked) ==
  LET IsPicked(f) == \E i \in picked : listing[i] = f
  IN  SelectSeq(listing, IsPicked)

\* The sorted lists of at most n files of a listing.
SortedSelections(listing, n) ==
  {Picked(listing, picked) : picked \in {P \in SUBSET DOMAIN listing : Cardinality(P) <= n}}

\* The state of the two objects now.
Gui == Preview(current_matches, manual_overrides)

\* The lists the two browsers can give match_files: get_selected_files of
\* the videos (file_browser.py lines 115-132), none selected too, and
\* get_all_files of the subtitles (lines 134-147), none in the directory too.
VideoSelections == SortedSelections(PreviewVideos, MaxVideos)

SubtitleListings == SortedSelections(PreviewSubtitles, MaxSubs)

\* main_window.py lines 258-262: the matches of the engine for every selection,
\* listing and setting that reach that line, computed once.
EngineMatches ==
  {<<video_files, subtitle_files, strict,
     match_batch(video_files, subtitle_files, strict)>> :
       video_files \in VideoSelections \ {<<>>},
       subtitle_files \in SubtitleListings \ {<<>>},
       strict \in BOOLEAN}

EngineMatchBatch(video_files, subtitle_files, strict) ==
  (CHOOSE m \in EngineMatches :
     m[1] = video_files /\ m[2] = subtitle_files /\ m[3] = strict)[4]

\* The window after MainWindow.__init__: no match, the buttons of the
\* preview disabled, strict_matching as the config file has it.
InitPreview ==
  /\ selected_files = <<>>
  /\ all_files = <<>>
  /\ strict_matching \in BOOLEAN
  /\ current_matches = <<>>
  /\ preview_files = <<>>
  /\ manual_overrides = <<>>
  /\ engine_matches = <<>>
  /\ last_op = "init"
  /\ BesidesGuiIdle

\* main_window.py lines 243-276: match_files on what the browsers give it
\* now.  It returns at line 250 when no video is selected and at line 254
\* when the directory has no subtitle, and leaves the matches and the
\* preview as they are; else it matches and hands the list to set_matches.
MatchFiles ==
  \E video_files \in VideoSelections, subtitle_files \in SubtitleListings :
    IF video_files = <<>> \/ subtitle_files = <<>>
    THEN /\ last_op' = IF video_files = <<>> THEN "no_videos" ELSE "no_subtitles"
         /\ UNCHANGED <<selected_files, all_files, strict_matching, current_matches,
                        preview_files, manual_overrides, engine_matches, besidesGui>>
    ELSE /\ selected_files' = video_files
         /\ all_files' = subtitle_files
         /\ engine_matches' = EngineMatchBatch(video_files, subtitle_files, strict_matching)
         /\ current_matches' = set_matches(Gui, engine_matches').matches
         /\ manual_overrides' = set_matches(Gui, engine_matches').manual_overrides
         /\ preview_files' = subtitle_files
         /\ last_op' = "match_files"
         /\ UNCHANGED <<strict_matching, besidesGui>>

\* The handler left the two objects in the state g.
Handled(g, op) ==
  /\ current_matches' = g.matches
  /\ manual_overrides' = g.manual_overrides
  /\ last_op' = op
  /\ UNCHANGED <<selected_files, all_files, strict_matching, preview_files,
                 engine_matches, besidesGui>>

\* The user picks another item in the combo box of a row.
SubtitleChanged(row, index) ==
  /\ row \in DOMAIN current_matches
  /\ index \in 0..Len(preview_files)
  /\ index # CurrentIndex(Gui, preview_files, row)
  /\ Handled(_on_subtitle_changed(Gui, preview_files, row, index), "select")

\* The user presses Clear in a row.
ClearMatch(row) ==
  /\ row \in DOMAIN current_matches
  /\ Handled(_clear_match(Gui, preview_files, row), "clear")

\* match_preview.py lines 67, 71, 88 and 89: the two buttons of the preview
\* are disabled until set_matches ran; set_matches is only given a list of
\* subtitles that is not empty.
ButtonsEnabled == preview_files # <<>>

\* The user presses the button of clear_all_matches.
ClearAllMatches ==
  /\ ButtonsEnabled
  /\ Handled(clear_all_matches(Gui), "clear_all")

\* The user presses the button of auto_match_all.
AutoMatchAll ==
  /\ ButtonsEnabled
  /\ Handled(auto_match_all(Gui), "auto_match_all")

\* settings_dialog.py lines 199-219: accept, of the dialog that
\* show_settings (main_window.py lines 377-382, menu Edit > Settings) opens
\* on the config of the window.  Line 210 writes the state of the check box
\* to config.strict_matching, which the next match_files reads; the matches
\* and the preview stay as they are.  The dialog is modal: no other handler
\* of the window runs between its opening and accept.
SettingsAccepted ==
  \E isChecked \in BOOLEAN :
    /\ strict_matching' = isChecked
    /\ last_op' = "settings"
    /\ UNCHANGED <<selected_files, all_files, current_matches, preview_files,
                   manual_overrides, engine_matches, besidesGui>>

NextPreview ==
  \/ MatchFiles
  \/ SettingsAccepted
  \/ \E row \in 1..MaxVideos : \E index \in 0..MaxSubs : SubtitleChanged(row, index)
  \/ \E row \in 1..MaxVideos : ClearMatch(row)
  \/ ClearAllMatches
  \/ AutoMatchAll

SpecPreview == InitPreview /\ [][NextPreview]_vars

(***************************************************************************)
(* SpecBatch: one run of the muxing, by one of its three callers: cli.py's *)
(* main in batch mode (mux_batch on all the matches, then                  *)
(* cleanup_temp_files), cli.py's main in sequential mode, and the main     *)
(* window (MuxWorker.start, mux_batch on the matches that had a subtitle   *)
(* at start_muxing, the Cancel button, the combo boxes of the preview).    *)
(* A match is its having a subtitle now.  The future of a match is "none"  *)
(* before submit, "pending" from submit on, in the queue and in the hands  *)
(* of a thread, "running" once the thread has marked it, "muxing" while    *)
(* mux_single processes the subtitle, and at the end "ok" (True), "fail"   *)
(* (False), "raise" (an exception left the worker function), "skipped"     *)
(* (the worker function saw the flag) or "cancelled" (Future.cancel).      *)
(***************************************************************************)
MaxItems == 3

\* max_workers: the default of mux_batch and of --workers, and less.
DefaultMaxWorkers == 4

WorkerCounts == {1, 2, DefaultMaxWorkers}

Callers == {"cli_batch", "cli_seq", "gui"}

Outcomes == {"ok", "fail", "raise"}

\* engine.py line 143 (and main_window.py line 296): the matches that have
\* a subtitle now, as indices.
ValidMatches == {i \in DOMAIN batch_matches : batch_matches[i]}

\* The work items in the queue of the pool.
Queued == {work_queue[k] : k \in DOMAIN work_queue}

\* The work items in the hands of a thread of the pool: taken from the
\* queue, and not cancelled or ended.
Busy == {i \in DOMAIN futures : futures[i] \in {"pending", "running", "muxing"}} \ Queued

\* The matches whose mux_single call is under way.
Running == {i \in DOMAIN futures : futures[i] = "muxing"}

\* The futures that are done and that as_completed has not handed out.
Completed ==
  {i \in DOMAIN futures : futures[i] \in Outcomes \cup {"skipped", "cancelled"}} \ yielded

\* ThreadPoolExecutor.__exit__: shutdown(wait=True) returns when the threads
\* have emptied the queue and ended their work items.
PoolDrained ==
  /\ work_queue = <<>>
  /\ \A i \in DOMAIN futures : futures[i] \notin {"pending", "running", "muxing"}

\* The positions of mux_batch and of the thread that runs it, from the call
\* to the return.
InBatch == {"started", "submitting", "collecting", "cancelling", "exiting", "returned"}

InitBatch ==
  /\ caller \in Callers
  /\ batch_matches \in {l \in ListsUpTo(BOOLEAN, MaxItems) :
                          /\ l # <<>>
                          /\ caller = "gui" => \A i \in DOMAIN l : l[i]}
  /\ max_workers \in IF caller = "gui" THEN {DefaultMaxWorkers} ELSE WorkerCounts
  /\ batch_pc = "init"
  /\ engine_cancelled = FALSE
  /\ valid_matches = {}
  /\ futures = [i \in DOMAIN batch_matches |-> "none"]
  /\ work_queue = <<>>
  /\ cancel_next = 0
  /\ yielded = {}
  /\ successes = 0 /\ failures = 0 /\ total = 0
  /\ progress_calls = <<>>
  /\ cancel_called = FALSE
  /\ not_begun = {}
  /\ muxed = {}
  /\ BesidesBatchIdle

\* main_window.py line 341: self.mux_worker.start(), on the matches that
\* line 296 found to have a subtitle; cli.py lines 185 and 197: main comes
\* to the muxing.
StartBatch ==
  /\ batch_pc = "init"
  /\ batch_pc' = IF caller = "cli_seq" THEN "sequential" ELSE "started"
  /\ UNCHANGED <<caller, batch_matches, max_workers, engine_cancelled, valid_matches,
                 futures, work_queue, cancel_next, yielded, successes, failures, total,
                 progress_calls, cancel_called, not_begun, muxed, besidesBatch>>

\* engine.py lines 137-147: the head of mux_batch.  The flag is reset, the
\* matches are counted, and those that have a subtitle now are kept.
EnterBatch ==
  /\ batch_pc = "started"
  /\ engine_cancelled' = FALSE
  /\ successes' = 0 /\ failures' = 0
  /\ total' = Len(batch_matches)
  /\ valid_matches' = ValidMatches
  /\ batch_pc' = IF ValidMatches = {} THEN "returned" ELSE "submitting"
  /\ UNCHANGED <<caller, batch_matches, max_workers, futures, work_queue, cancel_next,
                 yielded, progress_calls, cancel_called, not_begun, muxed, besidesBatch>>

\* engine.py lines 162-165: executor.submit for the next valid match.
Submit ==
  /\ batch_pc = "submitting"
  /\ LET rest == {i \in valid_matches : futures[i] = "none"}
     IN  /\ futures' = [futures EXCEPT ![MinOf(rest)] = "pending"]
         /\ work_queue' = Append(work_queue, MinOf(rest))
         /\ batch_pc' = IF rest = {MinOf(rest)} THEN "collecting" ELSE "submitting"
  /\ UNCHANGED <<caller, batch_matches, max_workers, engine_cancelled, valid_matches,
                 cancel_next, yielded, successes, failures, total, progress_calls,
                 cancel_called, not_begun, muxed, besidesBatch>>

\* engine.py line 160: a free thread of the pool, of max_workers at most,
\* takes the oldest work item from the queue.  The future stays pending; a
\* work item whose future was cancelled is dropped.
Take ==
  /\ work_queue # <<>>
  /\ Cardinality(Busy) < max_workers
  /\ work_queue' = Tail(work_queue)
  /\ UNCHANGED <<caller, batch_matches, max_workers, batch_pc, engine_cancelled,
                 valid_matches, futures, cancel_next, yielded, successes, failures, total,
                 progress_calls, cancel_called, not_begun, muxed, besidesBatch>>

\* engine.py line 160: the thread marks the future of its work item as
\* running; from now on Future.cancel fails.
SetRunning(i) ==
  /\ i \in Busy
  /\ futures[i] = "pending"
  /\ futures' = [futures EXCEPT ![i] = "running"]
  /\ UNCHANGED <<caller, batch_matches, max_workers, batch_pc, engine_cancelled,
                 valid_matches, work_queue, cancel_next, yielded, successes, failures,
                 total, progress_calls, cancel_called, not_begun, muxed, besidesBatch>>

\* engine.py lines 151-156 and 67-73: the worker function begins.  It
\* returns at once when the flag is set; else it calls mux_single, which
\* returns False at once when the match has no subtitle now, and else goes
\* on to process the subtitle.
WorkerBegin(i) ==
  /\ i \in DOMAIN futures
  /\ futures[i] = "running"
  /\ futures' = [futures EXCEPT ![i] = IF engine_cancelled THEN "skipped"
                                       ELSE IF batch_matches[i] THEN "muxing"
                                       ELSE "fail"]
  /\ muxed' = IF ~engine_cancelled /\ batch_matches[i] THEN muxed \cup {i} ELSE muxed
  /\ UNCHANGED <<caller, batch_matches, max_workers, batch_pc, engine_cancelled,
                 valid_matches, work_queue, cancel_next, yielded, successes, failures,
                 total, progress_calls, cancel_called, not_begun, besidesBatch>>

\* engine.py lines 156-157: mux_single returns True or False, or an
\* exception leaves the worker function.
WorkerEnd(i) ==
  /\ batch_pc # "sequential"
  /\ i \in DOMAIN futures
  /\ futures[i] = "muxing"
  /\ \E outcome \in Outcomes : futures' = [futures EXCEPT ![i] = outcome]
  /\ UNCHANGED <<caller, batch_matches, max_workers, batch_pc, engine_cancelled,
                 valid_matches, work_queue, cancel_next, yielded, successes, failures,
                 total, progress_calls, cancel_called, not_begun, muxed, besidesBatch>>

\* engine.py lines 168-191: one round of the loop over as_completed, for
\* the completed future i: with the flag set the loop over the futures of
\* lines 171-172 is entered, else the result is counted and reported.
Collect(i) ==
  /\ batch_pc = "collecting"
  /\ i \in Completed
  /\ IF engine_cancelled
     THEN /\ batch_pc' = "cancelling"
          /\ cancel_next' = MinOf(valid_matches)
          /\ UNCHANGED <<yielded, successes, failures, progress_calls>>
     ELSE /\ successes' = IF futures[i] = "ok" THEN successes + 1 ELSE successes
          /\ failures' = IF futures[i] = "ok" THEN failures ELSE failures + 1
          /\ progress_calls' = Append(progress_calls,
                                      [current |-> successes' + failures', total |-> total])
          /\ yielded' = yielded \cup {i}
          /\ batch_pc' = IF yielded' = valid_matches THEN "exiting" ELSE "collecting"
          /\ UNCHANGED cancel_next
  /\ UNCHANGED <<caller, batch_matches, max_workers, engine_cancelled, valid_matches,
                 futures, work_queue, total, cancel_called, not_begun, muxed, besidesBatch>>

\* engine.py lines 171-173: f.cancel() for the next future, in the order of
\* the submits: a pending future becomes cancelled, in the queue or in the
\* hands of a thread, any other stays as it is.  After the last the loop
\* over as_completed is left.
CancelFuture ==
  /\ batch_pc = "cancelling"
  /\ futures' = [futures EXCEPT ![cancel_next] =
                   IF futures[cancel_next] = "pending" THEN "cancelled"
                   ELSE futures[cancel_next]]
  /\ LET rest == {i \in valid_matches : i > cancel_next}
     IN  /\ cancel_next' = IF rest = {} THEN 0 ELSE MinOf(rest)
         /\ batch_pc' = IF rest = {} THEN "exiting" ELSE "cancelling"
  /\ UNCHANGED <<caller, batch_matches, max_workers, engine_cancelled, valid_matches,
                 work_queue, yielded, successes, failures, total, progress_calls,
                 cancel_called, not_begun, muxed, besidesBatch>>

\* engine.py lines 160 and 193-197: the with statement ends, mux_batch
\* returns.
ExitPool ==
  /\ batch_pc = "exiting"
  /\ PoolDrained
  /\ batch_pc' = "returned"
  /\ UNCHANGED <<caller, batch_matches, max_workers, engine_cancelled, valid_matches,
                 futures, work_queue, cancel_next, yielded, successes, failures, total,
                 progress_calls, cancel_called, not_begun, muxed, besidesBatch>>

\* cli.py lines 197-206: one round of the sequential loop starts: the next
\* match is counted as a failure, or mux_single is entered.
SequentialBegin ==
  /\ batch_pc = "sequential"
  /\ Running = {}
  /\ LET rest == {i \in DOMAIN futures : futures[i] = "none"}
     IN  IF rest = {}
         THEN /\ batch_pc' = "returned"
              /\ UNCHANGED <<futures, failures, muxed>>
         ELSE /\ futures' = [futures EXCEPT ![MinOf(rest)] =
                               IF batch_matches[MinOf(rest)] THEN "muxing" ELSE "fail"]
              /\ failures' = IF batch_matches[MinOf(rest)] THEN failures ELSE failures + 1
              /\ muxed' = IF batch_matches[MinOf(rest)] THEN muxed \cup {MinOf(rest)}
                          ELSE muxed
              /\ UNCHANGED batch_pc
  /\ UNCHANGED <<caller, batch_matches, max_workers, engine_cancelled, valid_matches,
                 work_queue, cancel_next, yielded, successes, total, progress_calls,
                 cancel_called, not_begun, besidesBatch>>

\* cli.py lines 203-206: mux_single returns to the loop, or an exception
\* leaves it and main with it, through the finally clause.
SequentialEnd(i) ==
  /\ batch_pc = "sequential"
  /\ i \in DOMAIN futures
  /\ futures[i] = "muxing"
  /\ \E outcome \in Outcomes :
       /\ futures' = [futures EXCEPT ![i] = outcome]
       /\ successes' = IF outcome = "ok" THEN successes + 1 ELSE successes
       /\ failures' = IF outcome = "fail" THEN failures + 1 ELSE failures
       /\ batch_pc' = IF outcome = "raise" THEN "returned" ELSE "sequential"
  /\ UNCHANGED <<caller, batch_matches, max_workers, engine_cancelled, valid_matches,
                 work_queue, cancel_next, yielded, total, progress_calls, cancel_called,
                 not_begun, muxed, besidesBatch>>

\* cleanup_temp_files run beside the batch instead of after it.
CleanupTempFilesEarly ==
  /\ caller # "gui"
  /\ batch_pc \in {"collecting", "cancelling", "exiting", "returned"}
  /\ batch_pc' = "cleaned"
  /\ UNCHANGED <<caller, batch_matches, max_workers, engine_cancelled, valid_matches,
                 futures, work_queue, cancel_next, yielded, successes, failures, total,
                 progress_calls, cancel_called, not_begun, muxed, besidesBatch>>

\* cli.py lines 210-211 and 88-99: finally: cleanup_temp_files().
CleanupTempFiles ==
  /\ caller # "gui"
  /\ batch_pc = "returned"
  /\ batch_pc' = "cleaned"
  /\ UNCHANGED <<caller, batch_matches, max_workers, engine_cancelled, valid_matches,
                 futures, work_queue, cancel_next, yielded, successes, failures, total,
                 progress_calls, cancel_called, not_begun, muxed, besidesBatch>>

\* main_window.py lines 44-46: run of the MuxWorker returns; isRunning() is
\* over.
WorkerFinished ==
  /\ caller = "gui"
  /\ batch_pc = "returned"
  /\ batch_pc' = "finished"
  /\ UNCHANGED <<caller, batch_matches, max_workers, engine_cancelled, valid_matches,
                 futures, work_queue, cancel_next, yielded, successes, failures, total,
                 progress_calls, cancel_called, not_begun, muxed, besidesBatch>>

\* engine.py lines 37-39: cancel(), from another thread than the one that
\* runs mux_batch, at any time of the run and any number of times.  In the
\* main window it is called by cancel_muxing (main_window.py lines 343-347,
\* the Cancel button) and by closeEvent (lines 403-413) while isRunning()
\* holds, which is from start() until run returns; closeEvent then waits
\* for the thread, which adds no behaviour.  cli.py has no call of it: there
\* the call stands for a program that holds the engine.  not_begun keeps
\* the matches whose worker function had not begun at the first call.
CancelMuxing ==
  /\ caller \in {"gui", "cli_batch"}
  /\ batch_pc \in InBatch
  /\ engine_cancelled' = TRUE
  /\ cancel_called' = TRUE
  /\ not_begun' = IF cancel_called THEN not_begun
                  ELSE {i \in DOMAIN futures : futures[i] \in {"none", "pending", "running"}}
  /\ UNCHANGED <<caller, batch_matches, max_workers, batch_pc, valid_matches, futures,
                 work_queue, cancel_next, yielded, successes, failures, total,
                 progress_calls, muxed, besidesBatch>>

\* main_window.py lines 278-287: on_match_changed, for a combo box or a
\* Clear button of the preview, which stay enabled while the MuxWorker
\* runs: the MatchResult the worker holds gets another subtitle or None.
MatchChanged(i) ==
  /\ caller = "gui"
  /\ batch_pc \in InBatch
  /\ i \in DOMAIN batch_matches
  /\ \E has_subtitle \in BOOLEAN : batch_matches' = [batch_matches EXCEPT ![i] = has_subtitle]
  /\ UNCHANGED <<caller, max_workers, batch_pc, engine_cancelled, valid_matches, futures,
                 work_queue, cancel_next, yielded, successes, failures, total,
                 progress_calls, cancel_called, not_begun, muxed, besidesBatch>>

\* engine.py line 137, in a second call of mux_batch on the engine of the
\* window while the run is under way.  The action "Match Files" of the
\* toolbar (main_window.py lines 195-197) stays enabled during a run, and
\* match_files enables the Start button again (line 270), so start_muxing
\* (lines 289-341) can start another MuxWorker on the same engine; cli.py
\* calls mux_batch once.  The second call has successes, failures, total,
\* valid_matches, executor and futures of its own; what it shares with the
\* run is the flag, which it resets.
EnterBatchAgain ==
  /\ caller = "gui"
  /\ batch_pc \in InBatch
  /\ engine_cancelled' = FALSE
  /\ UNCHANGED <<caller, batch_matches, max_workers, batch_pc, valid_matches, futures,
                 work_queue, cancel_next, yielded, successes, failures, total,
                 progress_calls, cancel_called, not_begun, muxed, besidesBatch>>

NextBatch ==
  \/ StartBatch
  \/ EnterBatch
  \/ EnterBatchAgain
  \/ Submit
  \/ Take
  \/ \E i \in 1..MaxItems : SetRunning(i)
  \/ \E i \in 1..MaxItems : WorkerBegin(i)
  \/ \E i \in 1..MaxItems : WorkerEnd(i)
  \/ \E i \in 1..MaxItems : Collect(i)
  \/ CancelFuture
  \/ ExitPool
  \/ SequentialBegin
  \/ \E i \in 1..MaxItems : SequentialEnd(i)
  \/ CleanupTempFiles
  \/ WorkerFinished
  \/ CancelMuxing
  \/ \E i \in 1..MaxItems : MatchChanged(i)

SpecBatch == InitBatch /\ [][NextBatch]_vars

(***************************************************************************)
(* SpecMux: one mux_single call on a match without subtitle and on        *)
(* subtitles with and without a language code in the name, with and        *)
(* without --shift-frames, --no-resample and --force-resample, on a video  *)
(* of the resolution of the script and on another, with and without a      *)
(* language given by the user, with ffprobe and mkvmerge at hand or not.   *)
(***************************************************************************)
NamedSubtitles ==
  {[dir |-> SubsDir, stem |-> SubStem \o code, suffix |-> suffix] :
     code \in {<<>>, <<".", "e", "n", "g">>, <<".", "j", "a">>, <<".", "E", "N", "G">>,
               <<".", "s", "i", "g", "n", "s">>},
     suffix \in {DotAss, DotSrt}}

MuxDoc == Doc(<<"6", "4", "0">>, <<"3", "6", "0">>, <<>>, <<>>)

MuxCalls ==
  {[subtitle_path |-> p, subtitle_lang |-> lang, shift_frames |-> frames,
    content |-> Content(Absent, <<>>), doc |-> MuxDoc, probe |-> probe,
    force_resample |-> force, no_resample |-> off] :
     p \in NamedSubtitles \cup {NoPath}, lang \in {NoLang, EmptyLang, <<"g", "e", "r">>}, frames \in {0, 1},
     probe \in {Probe("none", 640, 360), Probe("none", 1280, 720), Probe("no_ffprobe", 0, 0)},
     force \in BOOLEAN, off \in BOOLEAN}

MuxEnvs ==
  [shift_failure : {"none", "mkdir", "write"}, resample_failure : {"none", "write"},
   shift_id : UniqueIds, resample_id : {SecondUniqueId}, mux_step : MuxSteps]

InitMux ==
  /\ mux_call \in MuxCalls
  /\ mux_out = NotMuxed
  /\ mux_done = FALSE
  /\ BesidesMuxIdle

MuxSingle ==
  /\ ~mux_done
  /\ mux_call # NoMuxCall
  /\ \E env \in MuxEnvs : mux_out' = mux_single(mux_call, env)
  /\ mux_done' = TRUE
  /\ UNCHANGED <<mux_call, besidesMux>>

NextMux == MuxSingle

SpecMux == InitMux /\ [][NextMux]_vars

(***************************************************************************)
(* Properties of extract_episode_info (SpecParse).                         *)
(***************************************************************************)
\* The ranges of the substrings of s that any of the ignore patterns matches.
AllIgnoreRanges(s) == UNION {IgnoreRanges(s, p, 0) : p \in 1..NumIgnorePatterns}

InsideIgnored(s, start) ==
  \E range \in AllIgnoreRanges(s) : range[1] <= start /\ start < range[2]

Parsed == episode_info # <<>>

\* C1: a number that extract_episode_info returns is never taken from a match
\* that starts inside a substring matched by one of the four ignore patterns
\* (resolution, bit depth, audio channels, codec/source tag): the ranges of
\* all four patterns are skipped.
C1_NoNumberFromIgnoredRange ==
  Parsed /\ episode_info[2] # None
    => ~InsideIgnored(filename, episode_match(filename).start)

\* The offsets outside every ignore range at which EPISODE_PATTERNS[p]
\* matches.
MatchesOutside(s, p) ==
  {k \in 0..Len(s) : EpisodePatternAt(p, s, k) /\ ~InsideIgnored(s, k)}

\* The numbers (season, episode) of the match of EPISODE_PATTERNS[p] at
\* offset k.
NumbersAt(s, p, k) ==
  CASE p = 0 -> LET a == DigitRunEnd(s, k + 1)
                IN  <<ToInt(Slice(s, k + 1, a)),
                      ToInt(Slice(s, a + 1, DigitRunEnd(s, a + 1)))>>
    [] p = 1 -> LET a == DigitRunEnd(s, k)
                IN  <<ToInt(Slice(s, k, a)),
                      ToInt(Slice(s, a + 1, DigitRunEnd(s, a + 1)))>>
    [] p = 3 -> <<None, ToInt(Slice(s, k + 1, DigitRunEnd(s, k + 1)))>>
    [] p = 4 -> LET d == BareDigitsStart(s, k)
                IN  <<None, ToInt(Slice(s, d, BareDigitsEnd(s, d)))>>

\* The order in which extract_episode_info tries the patterns: SxxExx, AxB,
\* the number in brackets, the bare number.
PatternOrder == <<0, 1, 3, 4>>

\* The numbers of the first pattern, in that order, that has a match
\* outside every ignore range; (None, None) when no pattern has one.
FirstOutside(s) ==
  LET having == {i \in DOMAIN PatternOrder : MatchesOutside(s, PatternOrder[i]) # {}}
  IN  IF having = {} THEN <<None, None>>
      ELSE LET p == PatternOrder[MinOf(having)]
           IN  NumbersAt(s, p, MinOf(MatchesOutside(s, p)))

\* C24: extract_episode_info returns the numbers of the first pattern, in
\* the order SxxExx, AxB, number in brackets, bare number, that has a match
\* outside every ignore range, and (None, None) only when no pattern has a
\* match outside the ignore ranges.
C24_FirstPatternOutsideIgnored ==
  Parsed => episode_info = FirstOutside(filename)

(***************************************************************************)
(* Properties of _score_match (SpecScore).                                 *)
(***************************************************************************)
Scored == score_result # NotScored

SubInfo == extract_episode_info(score_call.sub_path.stem)

SubShow == extract_show_name(score_call.sub_path.stem)

ShowSimilarity == _string_similarity(score_call.video_show, SubShow)

EqualStems == score_call.video_path.stem = score_call.sub_path.stem

LangTagged ==
  /\ ~EqualStems
  /\ StartsWith(score_call.sub_path.stem, score_call.video_path.stem \o <<".">>)

SameEpisode ==
  /\ ~EqualStems /\ ~LangTagged
  /\ score_call.video_episode # None
  /\ SubInfo[2] # None
  /\ score_call.video_episode = SubInfo[2]

SeasonConflict ==
  /\ SameEpisode
  /\ score_call.video_season # None
  /\ SubInfo[1] # None
  /\ score_call.video_season # SubInfo[1]

\* C2: when the episode numbers are equal, both names carry a season and the
\* seasons differ, the result is exactly score 0.2 of kind 'episode', whatever
\* the show names are: no show-name bonus is added.
C2_SeasonConflictScore ==
  Scored /\ SeasonConflict
    => score_result.score = 20 /\ score_result.match_type = "episode"

\* C2 witness: a season conflict between two names of the same show, scored.
C2_Witness ==
  /\ Scored /\ SeasonConflict
  /\ score_call.video_show # <<>>
  /\ score_call.video_show = SubShow
  /\ score_result.score = 20

BaseScore ==
  IF score_call.video_season # None /\ SubInfo[1] # None THEN 80 ELSE 60

ShowBonus ==
  IF ShowSimilarity > 80 THEN 15 ELSE IF ShowSimilarity > 50 THEN 5 ELSE 0

\* C3: on equal episode numbers without a season conflict the base score is
\* 0.8 when both seasons are present and equal and 0.6 otherwise; a show-name
\* similarity above 0.8 adds 0.15, one above 0.5 adds 0.05, and the sum is
\* at most 0.95, so the result of kind 'episode' ranks below both exact
\* scores (0.99 and 1.0).
C3_EpisodeScoreAndBonus ==
  /\ Scored /\ SameEpisode /\ ~SeasonConflict
       => /\ score_result.match_type = "episode"
          /\ score_result.score = Min2(BaseScore + ShowBonus, 95)
  /\ Scored /\ ~EqualStems /\ ~LangTagged
       => score_result.score <= 95 /\ score_result.score < 99

\* C3 witness: same season, same episode, same show: 0.8 + 0.15, at the clamp.
C3_Witness ==
  /\ Scored /\ SameEpisode /\ ~SeasonConflict
  /\ BaseScore = 80 /\ ShowBonus = 15
  /\ score_result.score = 95

\* C4 as the specification states it: equal stems give 1.0 with kind Exact, a
\* stem that is the video's plus "." and anything gives 0.99 with a kind
\* ExactWithLangCode of its own, different from Exact.
C4_Original ==
  /\ Scored /\ EqualStems
       => score_result.score = 100 /\ score_result.match_type = "exact"
  /\ Scored /\ LangTagged
       => /\ score_result.score = 99
          /\ score_result.match_type = "ExactWithLangCode"
          /\ score_result.match_type # "exact"

\* C4: equal stems give 1.0 and a subtitle stem that is the video's stem, a
\* "." and anything gives 0.99; both results have the one kind 'exact', and
\* differ in the score and in the reason ('Exact filename match' against
\* 'Exact match with language code').
C4_ExactKinds ==
  /\ Scored /\ EqualStems
       => score_result = [score |-> 100, match_type |-> "exact",
                          reason |-> <<"Exact filename match">>]
  /\ Scored /\ LangTagged
       => score_result = [score |-> 99, match_type |-> "exact",
                          reason |-> <<"Exact match with language code">>]

\* C4 witness: a language-tagged subtitle, scored.
C4_Witness ==
  /\ Scored /\ LangTagged
  /\ score_result.score = 99
  /\ score_result.match_type = "exact"

\* C5: a result of kind 'fuzzy' is given only when the video has no episode
\* number and both show names are non-empty (0.7 above similarity 0.9, 0.5
\* above 0.7); when the video has an episode number and the subtitle's is
\* absent or different, the result is (0.0, 'none', 'No matching criteria')
\* however similar the show names are.
C5_FuzzyOnlyWithoutEpisode ==
  /\ Scored /\ score_result.match_type = "fuzzy"
       => /\ score_call.video_episode = None
          /\ score_call.video_show # <<>> /\ SubShow # <<>>
          /\ \/ score_result.score = 70 /\ ShowSimilarity > 90
             \/ score_result.score = 50 /\ ShowSimilarity > 70
                                        /\ ShowSimilarity <= 90
  /\ Scored /\ ~EqualStems /\ ~LangTagged /\ score_call.video_episode # None
            /\ SubInfo[2] # score_call.video_episode
       => score_result = [score |-> 0, match_type |-> "none",
                          reason |-> <<"No matching criteria">>]

\* C5 witness: the video has an episode number, the subtitle another one, and
\* the show names are the same: no match.
C5_Witness ==
  /\ Scored /\ ~EqualStems /\ ~LangTagged
  /\ score_call.video_episode # None
  /\ SubInfo[2] # None
  /\ SubInfo[2] # score_call.video_episode
  /\ ShowSimilarity > 90
  /\ score_result.match_type = "none"

(***************************************************************************)
(* Properties of match_single, match_batch and the confidence filter       *)
(* (Spec).                                                                 *)
(***************************************************************************)
SingleDone == pc = "single"

\* What _score_match gives for a video and one subtitle, on the arguments
\* match_single computes from the video's name.
Score(video_path, sub_path) ==
  The({_score_match(video_path, sub_path, info[1], info[2], show) :
         info \in {extract_episode_info(video_path.stem)},
         show \in {extract_show_name(video_path.stem)}})

Scores(video_path) == [j \in 1..Len(sub_files) |-> Score(video_path, sub_files[j])]

MaxScore(scores) ==
  CHOOSE m \in {scores[j].score : j \in DOMAIN scores} :
    \A j \in DOMAIN scores : scores[j].score <= m

FirstMax(scores) == MinOf({j \in DOMAIN scores : scores[j].score = MaxScore(scores)})

\* C6 as the specification states it: without strict, on a non-empty list,
\* match_single returns the first of the candidates of maximum score, with that
\* candidate's score, kind and reason.
C6_Original ==
  SingleDone /\ ~args_strict /\ sub_files # <<>>
    => \E scores \in {Scores(result.video_path)} : \E j \in {FirstMax(scores)} :
         result = MatchResult(result.video_path, sub_files[j], scores[j].score,
                              scores[j].match_type, scores[j].reason)

\* C6: without strict, on a non-empty list whose maximum score is above 0.0,
\* match_single returns the first of the candidates of maximum score, with that
\* candidate's score, kind and reason; when every candidate scores 0.0 it
\* returns no candidate: subtitle_path None, confidence 0.0, kind 'none'.
C6_BestCandidate ==
  SingleDone /\ ~args_strict /\ sub_files # <<>>
    => \E scores \in {Scores(result.video_path)} : \E j \in {FirstMax(scores)} :
         IF scores[j].score > 0
         THEN result = MatchResult(result.video_path, sub_files[j], scores[j].score,
                                   scores[j].match_type, scores[j].reason)
         ELSE /\ result.subtitle_path = NonePath
              /\ result.confidence = 0
              /\ result.match_type = "none"

\* C6 witness: two candidates tie for a maximum above 0.0, the first is returned.
C6_Witness ==
  /\ SingleDone /\ ~args_strict /\ Len(sub_files) = 2
  /\ \E scores \in {Scores(result.video_path)} :
       /\ scores[1].score = scores[2].score
       /\ scores[1].score > 0
  /\ result.subtitle_path = sub_files[1]

\* C7: with strict, match_single returns subtitle_path None whenever the best
\* score is below 0.9, the confidence is still the best score and the reason
\* names the strict threshold; and every strict result that has a subtitle has
\* a confidence of 0.9 or more.
C7_StrictThreshold ==
  /\ SingleDone /\ args_strict /\ sub_files # <<>>
       => \E best \in {MaxScore(Scores(result.video_path))} :
            best < 90
              => /\ result.subtitle_path = NonePath
                 /\ result.confidence = best
                 /\ result.reason # <<>>
                 /\ result.reason[1] = "Best match below strict threshold: "
  /\ SingleDone /\ args_strict /\ result.subtitle_path # NonePath
       => result.confidence >= 90
  /\ pc = "matched" /\ args_strict
       => \A i \in 1..Len(matches) :
            matches[i].subtitle_path # NonePath => matches[i].confidence >= 90

\* C7 witness: a strict call whose best candidate scores above 0.0 and below
\* 0.9: no subtitle, the score kept.
C7_Witness ==
  /\ SingleDone /\ args_strict /\ sub_files # <<>>
  /\ \E best \in {MaxScore(Scores(result.video_path))} :
       /\ best > 0 /\ best < 90
       /\ result.confidence = best
  /\ result.subtitle_path = NonePath

\* C8: every MatchResult of match_single has a non-empty reason: on an empty or
\* a non-empty list, strict or not, also when every candidate scores 0.0.
C8_ReasonNonEmpty ==
  /\ SingleDone => result.reason # <<>>
  /\ pc = "matched" => \A i \in 1..Len(matches) : matches[i].reason # <<>>

NoneIffNoSubtitle(m) == m.subtitle_path = NonePath <=> m.match_type = "none"

\* C9: in every result of match_single subtitle_path is None exactly when the
\* kind is 'none'; only the confidence filter of the command line makes a
\* result with subtitle_path None and another kind, and it changes nothing of
\* a result but its subtitle_path: confidence, kind and reason stay.
C9_NoneIffKindNone ==
  /\ [](/\ SingleDone => NoneIffNoSubtitle(result)
        /\ pc \in {"matched", "forced"}
             => \A i \in 1..Len(matches) : NoneIffNoSubtitle(matches[i])
        /\ pc = "filtered"
             => \A i \in 1..Len(matches) :
                  matches[i].match_type = "none" => matches[i].subtitle_path = NonePath)
  /\ [][pc = "matched" /\ pc' = "filtered"
          => /\ Len(matches') = Len(matches)
             /\ \A i \in 1..Len(matches) :
                  /\ matches'[i].video_path = matches[i].video_path
                  /\ matches'[i].confidence = matches[i].confidence
                  /\ matches'[i].match_type = matches[i].match_type
                  /\ matches'[i].reason = matches[i].reason
                  /\ matches'[i].subtitle_path =
                       IF matches[i].confidence >= args_threshold'
                       THEN matches[i].subtitle_path ELSE NonePath]_vars

\* C9 witness: after the filter, a result of kind 'exact' without a subtitle.
C9_Witness ==
  /\ pc = "filtered"
  /\ \E i \in 1..Len(matches) :
       /\ matches[i].subtitle_path = NonePath
       /\ matches[i].match_type = "exact"
       /\ matches[i].confidence = 99

\* C10: match_batch returns one MatchResult for each video, in the order of
\* the videos, the i-th being match_single of the i-th video on the whole
\* subtitle list with the same strict; a subtitle chosen for one video stays a
\* candidate of the others, so two videos can get the same subtitle.
C10_BatchIsIndependent ==
  pc = "matched"
    => /\ Len(matches) = Len(mkv_files)
       /\ \A i \in 1..Len(mkv_files) :
            /\ matches[i].video_path = mkv_files[i]
            /\ matches[i] = match_single(mkv_files[i], sub_files, args_strict)

\* C10 witness: a batch in which two videos got the same subtitle.
C10_Witness ==
  /\ pc = "matched"
  /\ \E i, j \in 1..Len(matches) :
       /\ i # j
       /\ matches[i].subtitle_path # NonePath
       /\ matches[i].subtitle_path = matches[j].subtitle_path

(***************************************************************************)
(* The subtitle transforms: shift_subtitle_timing, resample_ass_subtitle   *)
(***************************************************************************)
\* The call of shift_subtitle_timing has ended.
ShiftDone == shift_out # NotShifted

\* The call of resample_ass_subtitle has ended.
ResampleDone == resample_out # NotResampled

\* The input file of the call, as it was when the call began.
ShiftInput == OnDisk(shift_call.sub_path, shift_call.content)

ResampleInput == OnDisk(resample_call.sub_path, resample_call.doc)

\* The subtitle of the resample call has the suffix .ass, in any case.
IsAss == LowerEquals(resample_call.sub_path.suffix, DotAss)

\* The video probes as a resolution, and none of its dimensions is 0.
Probed ==
  /\ resample_call.probe.failure = "none"
  /\ resample_call.probe.width # 0
  /\ resample_call.probe.height # 0

\* The script's resolution, as the resampler reads it, is the video's.
SameResolution ==
  /\ Probed
  /\ PlayRes(resample_call.doc.play_res_x).ok
  /\ PlayRes(resample_call.doc.play_res_y).ok
  /\ OrigWidth(resample_call.doc) = resample_call.probe.width
  /\ OrigHeight(resample_call.doc) = resample_call.probe.height

\* C11: a transform that has nothing to do returns the path it was given and
\* creates no file: a shift by 0 frames; a resample of a file that is not
\* .ass, or with no_resample set, or of a script whose resolution is the
\* video's when force_resample is false.
C11_NoOpReturnsInput ==
  /\ (ShiftDone /\ shift_call.frames = 0)
       => /\ ~shift_out.raised
          /\ shift_out.path = shift_call.sub_path
          /\ files = {ShiftInput}
  /\ (/\ ResampleDone
      /\ \/ ~IsAss
         \/ resample_call.no_resample
         \/ SameResolution /\ ~resample_call.force_resample)
       => /\ ~resample_out.raised
          /\ resample_out.path = resample_call.sub_path
          /\ files = {ResampleInput}

\* A script of the video's resolution, with styles to scale, went through an
\* unforced resample and came back as the input path.
C11_Witness ==
  /\ ResampleDone
  /\ IsAss
  /\ ~resample_call.no_resample
  /\ SameResolution
  /\ ~resample_call.force_resample
  /\ resample_call.doc.styles # <<>>
  /\ resample_out.path = resample_call.sub_path
  /\ files = {ResampleInput}

\* The shift call wrote its output.
ShiftWritten == ShiftDone /\ shift_out.file.complete

\* The frame rate the shift is to use: the Timer of an ASS script when it
\* reads as a number, 23.976 otherwise and for SRT.
UsableFps ==
  IF /\ (\/ LowerEquals(shift_call.sub_path.suffix, DotAss)
         \/ LowerEquals(shift_call.sub_path.suffix, DotSsa))
     /\ shift_call.content.timer # Absent
     /\ ParseFloat(shift_call.content.timer).ok
  THEN ParseFloat(shift_call.content.timer).value
  ELSE DefaultFps

\* Whether the int k is an integer nearest to n / x, for an int n and a float
\* x that is a number other than 0: k * x is no further from n than half of
\* x.  The three are written as whole numbers of units of 2^x.exp, or of 1.
NearestQuotient(k, n, x) ==
  The({The({
    ~BigLess(unit,
             Shl(IF k = 0 \/ n = 0 \/ ((k < 0) # x.neg) = (n < 0)
                 THEN (IF BigLess(kx, nn) THEN BigSub(nn, kx, Base) ELSE BigSub(kx, nn, Base))
                 ELSE BigAdd(kx, nn, Base),
                 1)) :
    kx \in {BigMul(BigFromInt(Abs(k), Base), unit, Base)},
    nn \in {Shl(BigFromInt(Abs(n), Base), Larger(-x.exp, 0))}}) :
    unit \in {Shl(x.man, Larger(x.exp, 0))}})

\* C12: the shift in milliseconds is the integer nearest to
\* frames * 1000 / fps (no further from it than one half), and the shift of
\* -frames is its negation.
C12_ShiftIsNearestMs ==
  ShiftWritten =>
    /\ IF UsableFps.cls = "inf" THEN shift_out.shift_ms = 0
       ELSE NearestQuotient(shift_out.shift_ms, shift_call.frames * 1000, UsableFps)
    /\ ShiftMs(-shift_call.frames, UsableFps) = -shift_out.shift_ms

\* The milliseconds a timestamp of a subtitle file stands for.
TrueMs(t) ==
  IF t.form = "srt" THEN SrtMs(t)
  ELSE (t.h * 3600 + t.m * 60 + t.s) * 1000 + t.frac * 10

\* C13: every event of the shifted output starts at max(0, start + shiftMs)
\* and ends at max(0, end + shiftMs), each by itself; no written time is
\* negative, and an event that started no later than it ended still does.
C13_EventsShiftedAndClamped ==
  ShiftWritten =>
    \A i \in DOMAIN shift_call.content.events :
      LET before == shift_call.content.events[i]
          after == shift_out.file.events[i]
      IN  /\ TrueMs(after.start) = Shifted(TrueMs(before.start), shift_out.shift_ms)
          /\ TrueMs(after.end) = Shifted(TrueMs(before.end), shift_out.shift_ms)
          /\ TrueMs(after.start) >= 0 /\ TrueMs(after.end) >= 0
          /\ TrueMs(before.start) <= TrueMs(before.end)
               => TrueMs(after.start) <= TrueMs(after.end)

\* C14: a shift by a number of frames other than 0 raises nothing and leaves
\* its input file as it was; it returns the path of a file it wrote to the
\* end, or else the path it was given.
C14_ShiftFailsOpen ==
  (ShiftDone /\ shift_call.frames # 0) =>
    /\ ~shift_out.raised
    /\ ShiftInput \in files
    /\ \/ shift_out.path = shift_call.sub_path
       \/ shift_out.path = shift_out.made /\ shift_out.file.complete

\* The scale factors of the call, from the resolution the code reads.
ScaleX == Scale(resample_call.probe.width, OrigWidth(resample_call.doc))

ScaleY == Scale(resample_call.probe.height, OrigHeight(resample_call.doc))

\* The PlayRes values and the fields of every style read as numbers.
NumericHeader ==
  /\ PlayRes(resample_call.doc.play_res_x).ok
  /\ PlayRes(resample_call.doc.play_res_y).ok
  /\ \A i \in DOMAIN resample_call.doc.styles :
       StyleParses(resample_call.doc.styles[i], ScaleX, ScaleY)

\* A resample was asked of an .ass file, the video probed, nothing of the
\* environment failed and the header is numeric.
ResampleAsked ==
  /\ ResampleDone
  /\ IsAss
  /\ ~resample_call.no_resample
  /\ Probed
  /\ failed = "none"
  /\ NumericHeader

\* The resample call wrote a new file to the end and returned its path.
ResampleWritten ==
  /\ ~resample_out.raised
  /\ resample_out.exists
  /\ resample_out.path = resample_out.made
  /\ resample_out.path # resample_call.sub_path
  /\ OnDisk(resample_out.path, resample_out.doc) \in files

\* C15: with force_resample, a resample of an .ass file that is not disabled
\* always writes a new file and returns its path, also when the script has
\* the resolution of the video.
C15_ForceAlwaysWrites ==
  (ResampleAsked /\ resample_call.force_resample) => ResampleWritten

\* One of the PlayRes values of the script is 0 or is not there.
PlayResMissing ==
  \/ PlayRes(resample_call.doc.play_res_x).value = 0
  \/ PlayRes(resample_call.doc.play_res_y).value = 0

\* C16: when either PlayRes value is 0 or absent the source resolution is
\* 1280x720, for the test that skips a resample of equal resolutions and for
\* both scale factors.
C16_DefaultSourceResolution ==
  (ResampleAsked /\ PlayResMissing) =>
    /\ (/\ ~resample_call.force_resample
        /\ resample_call.probe.width = DefaultWidth
        /\ resample_call.probe.height = DefaultHeight)
         => resample_out.path = resample_call.sub_path /\ ~resample_out.exists
    /\ resample_out.exists =>
         \A i \in DOMAIN resample_call.doc.styles :
           resample_out.doc.styles[i]
             = ScaleStyle(resample_call.doc.styles[i],
                          Scale(resample_call.probe.width, DefaultWidth),
                          Scale(resample_call.probe.height, DefaultHeight))

\* The field reads as the float of old times scale.
ScaledBy(new, old, scale) ==
  /\ ParseFloat(new).ok
  /\ ParseFloat(new).value = Times(ParseFloat(old).value, scale)

\* Whether the int k is an integer nearest to the finite float x: no further
\* from it than one half.
IsNearest(k, x) ==
  LET whole == BigToInt(Trunc(x), Base)
      half == x.exp < 0 /\ Bit(x.man, -x.exp - 1) = 1
      more == x.exp < 0 /\ ~LowZero(x.man, -x.exp - 1)
  IN  (IF x.neg THEN -k ELSE k)
        \in (IF ~half THEN {whole} ELSE IF more THEN {whole + 1} ELSE {whole, whole + 1})

\* The field is an integer nearest to old times scale.
NearestTo(new, old, scale) ==
  /\ ParseInt(new).ok
  /\ IsNearest(ParseInt(new).value, Times(ParseFloat(old).value, scale))

\* C17: in a resampled file every style has fontsize, outline and shadow
\* multiplied by scaleY, spacing by scaleX, and the margins (left and right
\* by scaleX, vertical by scaleY) written as the nearest integer.
C17_StylesScaled ==
  (ResampleAsked /\ resample_out.exists) =>
    \A i \in DOMAIN resample_call.doc.styles :
      LET old == resample_call.doc.styles[i]
          new == resample_out.doc.styles[i]
      IN  /\ ScaledBy(new.fontsize, old.fontsize, ScaleY)
          /\ ScaledBy(new.outline, old.outline, ScaleY)
          /\ ScaledBy(new.shadow, old.shadow, ScaleY)
          /\ IF old.spacing = Absent THEN new.spacing = Absent
             ELSE ScaledBy(new.spacing, old.spacing, ScaleX)
          /\ NearestTo(new.marginl, old.marginl, ScaleX)
          /\ NearestTo(new.marginr, old.marginr, ScaleX)
          /\ NearestTo(new.marginv, old.marginv, ScaleY)

\* The text has none of the tags the resampler rewrites.
NoKnownTag(text) ==
  \A k \in 0..(Len(text) - 1) :
    /\ \A name \in {TagPos, TagMove, TagOrg, TagClip} : ~TagOpenAt(text, k, name)
    /\ ~LitAt(text, k, <<"\\", "f", "s">>, FALSE)

\* An event that places its text with \pos(320,180).
PosText ==
  <<"{", "\\", "p", "o", "s", "(", "3", "2", "0", ",", "1", "8", "0", ")", "}", "H", "i">>

\* C18: a resample rewrites the arguments of the tags it knows (the x of
\* \pos by scaleX, its y by scaleY), leaves a text without them as it is,
\* and a tag in a form it does not know keeps nothing of the document from
\* being resampled.
C18_TagsScaledOthersPass ==
  (/\ ResampleAsked
   /\ resample_call.force_resample \/ ~SameResolution)
    => /\ ResampleWritten
       /\ \A i \in DOMAIN resample_call.doc.events :
            LET old == resample_call.doc.events[i]
                new == resample_out.doc.events[i]
            IN  /\ NoKnownTag(old) => new = old
                /\ old = PosText =>
                     new = <<"{", "\\", "p", "o", "s", "(">>
                             \o FloatStr(Times(FloatOfInt(320), ScaleX)) \o <<",">>
                             \o FloatStr(Times(FloatOfInt(180), ScaleY))
                             \o <<")", "}", "H", "i">>

\* C19: a resample raises nothing and leaves its input as it was; when it
\* returns the path it was given, no file of its making is left; it returns
\* another path only for a file it wrote to the end.
C19_ResampleAllOrNothing ==
  ResampleDone =>
    /\ ~resample_out.raised
    /\ ResampleInput \in files
    /\ resample_out.path = resample_call.sub_path => files = {ResampleInput}
    /\ resample_out.path # resample_call.sub_path => ResampleWritten

\* A forced resample wrote a file, and the forced resample of that file back
\* to the resolution the script had wrote one too.
ResampledBack ==
  /\ ResampleAsked
  /\ resample_call.force_resample
  /\ resample_out.exists
  /\ back_out # NotResampled
  /\ back_out.exists

\* The two fields read as the same number.
SameNumber(new, old) ==
  /\ ParseFloat(new).ok
  /\ ParseFloat(new).value = ParseFloat(old).value

\* The float x is y up to the four roundings of a round trip (the two scale
\* factors and the two products, 2^-53 each): a number no further from y than
\* 2^-50 of y, or the same infinity or not-a-number.  The two are written as
\* whole numbers of units of 2^e, e the smaller exponent.
Near(x, y) ==
  IF x.cls # "num" \/ y.cls # "num" THEN x = y
  ELSE The({The({
         ~BigLess(b, Shl(IF x.neg = y.neg
                         THEN (IF BigLess(a, b) THEN BigSub(b, a, Base) ELSE BigSub(a, b, Base))
                         ELSE BigAdd(a, b, Base), 50)) :
         a \in {Shl(x.man, x.exp - e)}, b \in {Shl(y.man, y.exp - e)}}) :
         e \in {IF x.exp < y.exp THEN x.exp ELSE y.exp}})

\* The field new reads as the number of old up to rounding.
CloseTo(new, old) ==
  /\ ParseFloat(new).ok
  /\ Near(ParseFloat(new).value, ParseFloat(old).value)

\* The float is 0 or a number of full precision: not an infinity, not
\* not-a-number, and not below the smallest normal float, 2^-1022.
Normal(x) == x.cls = "num" /\ (IsZero(x) \/ BitLen(x.man) + x.exp > -1022)

\* The field and the field times scale are Normal: the round trip neither
\* overflows nor underflows.
InRange(old, scale) ==
  The({Normal(x) /\ Normal(Times(x, scale)) : x \in {ParseFloat(old).value}})

\* fontsize, outline, shadow and spacing of the style are those of old up to
\* rounding, when the round trip of the field stays in the range of floats.
FloatFieldsRestored(new, old, scale_x, scale_y) ==
  /\ InRange(old.fontsize, scale_y) => CloseTo(new.fontsize, old.fontsize)
  /\ InRange(old.outline, scale_y) => CloseTo(new.outline, old.outline)
  /\ InRange(old.shadow, scale_y) => CloseTo(new.shadow, old.shadow)
  /\ IF old.spacing = Absent THEN new.spacing = Absent
     ELSE InRange(old.spacing, scale_x) => CloseTo(new.spacing, old.spacing)

\* The margin came back as an integer no larger than old.
MarginCutBack(new, old) ==
  /\ ParseInt(new).ok
  /\ ParseInt(new).value <= ParseInt(old).value

\* C20 as stated: a forced resample from A to B and a forced resample back
\* to A restore every numeric field of every style up to rounding: fontsize,
\* outline, shadow, spacing and the three margins.
C20_Original ==
  ResampledBack =>
    \A i \in DOMAIN resample_call.doc.styles :
      LET old == resample_call.doc.styles[i]
          new == back_out.doc.styles[i]
      IN  /\ CloseTo(new.fontsize, old.fontsize)
          /\ CloseTo(new.outline, old.outline)
          /\ CloseTo(new.shadow, old.shadow)
          /\ IF old.spacing = Absent THEN new.spacing = Absent
             ELSE CloseTo(new.spacing, old.spacing)
          /\ CloseTo(new.marginl, old.marginl)
          /\ CloseTo(new.marginr, old.marginr)
          /\ CloseTo(new.marginv, old.marginv)

\* C20, amended: a forced resample from A to B and a forced resample back to
\* A restore fontsize, outline, shadow and spacing of every style up to
\* rounding, when the field and its scaled value are in the range of floats;
\* a margin, cut to an integer on each pass, comes back no larger than it was.
C20_FloatFieldsRestored ==
  ResampledBack =>
    \A i \in DOMAIN resample_call.doc.styles :
      LET old == resample_call.doc.styles[i]
          new == back_out.doc.styles[i]
      IN  /\ FloatFieldsRestored(new, old, ScaleX, ScaleY)
          /\ MarginCutBack(new.marginl, old.marginl)
          /\ MarginCutBack(new.marginr, old.marginr)
          /\ MarginCutBack(new.marginv, old.marginv)

\* A style went to a resolution whose scale factors are rounded and back: the
\* spacing came back as another float, the original up to rounding, and a
\* margin came back smaller.
C20_Witness ==
  /\ ResampledBack
  /\ ~SameResolution
  /\ \E i \in DOMAIN resample_call.doc.styles :
       LET old == resample_call.doc.styles[i]
           new == back_out.doc.styles[i]
       IN  /\ old.spacing # Absent
           /\ InRange(old.spacing, ScaleX)
           /\ ~SameNumber(new.spacing, old.spacing)
           /\ CloseTo(new.spacing, old.spacing)
           /\ ~SameNumber(new.marginl, old.marginl)

(***************************************************************************)
(* Properties of the calls that run side by side and one after the other   *)
(***************************************************************************)
\* C21: any two transform calls write to different paths: no call writes
\* over the output of another.
C21_DistinctOutputPaths ==
  \A i, j \in DOMAIN transforms :
    (i # j /\ transforms[i].made # NoPath /\ transforms[j].made # NoPath)
      => transforms[i].made # transforms[j].made

(***************************************************************************)
(* Properties of _string_similarity (SpecSimilarity)                       *)
(***************************************************************************)
\* The length of the run of characters other than whitespace that s starts with.
RECURSIVE WordLen(_)
WordLen(s) == IF s = <<>> \/ IsSpace(s[1]) THEN 0 ELSE 1 + WordLen(Tail(s))

\* str.split(): the words of s, the runs of characters between whitespace.
RECURSIVE Words(_)
Words(s) ==
  IF s = <<>> THEN <<>>
  ELSE IF IsSpace(s[1]) THEN Words(Tail(s))
  ELSE LET n == WordLen(s)
       IN  <<SubSeq(s, 1, n)>> \o Words(SubSeq(s, n + 1, Len(s)))

\* How often the word w is among the words ws.
Occurrences(w, ws) == Cardinality({i \in DOMAIN ws : ws[i] = w})

\* a and b are made of the same words, in any order.
SameWords(a, b) ==
  /\ Words(a) # <<>>
  /\ Len(Words(a)) = Len(Words(b))
  /\ \A i \in DOMAIN Words(a) :
       Occurrences(Words(a)[i], Words(a)) = Occurrences(Words(a)[i], Words(b))

\* C22: _string_similarity does not depend on the order of the words: it is
\* 1.0 for two strings of the same whitespace-separated words; it is within
\* [0, 1], the same with the arguments exchanged, and 0 when an argument
\* normalizes to the empty string (the case that goes before the one of the
\* same words).
C22_TokenOrderInsensitive ==
  ratio # -1 =>
    /\ ratio \in 0..100
    /\ ratio = _string_similarity(similarity_call[2], similarity_call[1])
    /\ (Normalize(similarity_call[1]) = <<>> \/ Normalize(similarity_call[2]) = <<>>)
         => ratio = 0
    /\ (/\ SameWords(similarity_call[1], similarity_call[2])
        /\ Normalize(similarity_call[1]) # <<>>)
         => ratio = 100

(***************************************************************************)
(* Properties of the match preview (SpecPreview)                           *)
(***************************************************************************)
\* The videos that have a manual override.
Overridden == DOMAIN manual_overrides

\* C23: after any sequence of selections, clears, clear-all and auto-match,
\* get_matches reports every video that has a manual override with the
\* subtitle of the override, the kind 'manual' and the confidence 1.0 when
\* a subtitle is set, 0.0 when it is cleared; and set_matches leaves no
\* override.
C23_OverridesReportedManual ==
  /\ \A i \in DOMAIN current_matches :
       current_matches[i].video_path \in Overridden =>
         LET reported == get_matches(Gui)[i]
             override == manual_overrides[current_matches[i].video_path]
         IN  /\ reported.video_path = current_matches[i].video_path
             /\ reported.subtitle_path = override
             /\ reported.match_type = "manual"
             /\ reported.confidence = IF override # NonePath THEN 100 ELSE 0
  /\ last_op = "match_files" => Overridden = {}

\* Two videos have an override after a handler of the preview: one a
\* subtitle, one cleared.
C23_Witness ==
  /\ last_op \in {"select", "clear"}
  /\ \E v, w \in Overridden :
       manual_overrides[v] # NonePath /\ manual_overrides[w] = NonePath

\* C26: after auto_match_all, whatever selections and clears went before,
\* no override is left and the match of every video, in
\* MainWindow.current_matches (what start_muxing uses) and in get_matches,
\* has the subtitle, kind, confidence and reason the engine computed at the
\* last match_files.
C26_AutoMatchRestoresEngine ==
  last_op = "auto_match_all" =>
    /\ manual_overrides = <<>>
    /\ current_matches = engine_matches
    /\ get_matches(Gui) = engine_matches

(***************************************************************************)
(* Properties of a run of the muxing (SpecBatch)                           *)
(***************************************************************************)
\* C25: in the CLI cleanup_temp_files runs only after every mux_single call
\* has returned: once it ran, no mux_single call is under way, every call
\* that went on to process a subtitle has returned or raised, and no work
\* item is left to a thread of the pool, whatever the number of workers and
\* also when the batch was cancelled or a worker raised.
C25_CleanupAfterAllMuxes ==
  batch_pc = "cleaned" =>
    /\ \A i \in muxed : futures[i] \in Outcomes
    /\ \A i \in DOMAIN futures : futures[i] \notin {"pending", "running", "muxing"}
    /\ work_queue = <<>>

\* The cleanup ran after a batch that was cancelled while two mux_single
\* calls were under way and a third match was pending: one call raised, the
\* loop cancelled the pending future, and the other call ended after that.
C25_Witness ==
  /\ batch_pc = "cleaned"
  /\ caller = "cli_batch"
  /\ engine_cancelled
  /\ Cardinality(muxed) >= 2
  /\ \E i \in muxed : futures[i] = "raise"
  /\ \E i \in DOMAIN futures : futures[i] = "cancelled"

\* C27: a cancel request is never lost: after cancel(), called at any time
\* after the batch was started, no match whose worker function had not
\* begun at that time is muxed.
C27_CancelNeverLost ==
  cancel_called => not_begun \cap muxed = {}

\* C28: in a run of mux_batch that is not cancelled the progress callback is
\* called once per processed match, with current counting up by 1 from 1
\* and never above total; when mux_batch has returned, the last call had
\* current = total and successes + failures is that current.
C28_ProgressCountsToTotal ==
  (caller \in {"cli_batch", "gui"} /\ ~cancel_called) =>
    /\ \A k \in DOMAIN progress_calls :
         progress_calls[k].current = k /\ k <= progress_calls[k].total
    /\ batch_pc \in {"returned", "cleaned"} =>
         /\ Len(progress_calls) = Cardinality(valid_matches)
         /\ successes + failures = Len(progress_calls)
         /\ \A k \in DOMAIN progress_calls :
              k = Len(progress_calls) => progress_calls[k].current = progress_calls[k].total

(***************************************************************************)
(* Properties of mux_single (SpecMux)                                      *)
(***************************************************************************)
\* mux_single handed a subtitle to the muxer, with no language given by the
\* user.
MuxedWithoutOverride == mux_done /\ mux_out.called /\ mux_call.subtitle_lang = NoLang

\* C29: with no override the language mux_single hands to the muxer is the
\* language code in the name of the selected subtitle, the same whether the
\* subtitle went through unchanged or was replaced by a shifted or
\* resampled temporary file.
C29_LanguageOfSelectedSubtitle ==
  MuxedWithoutOverride =>
    mux_out.subtitle_lang = extract_lang_from_filename(mux_call.subtitle_path)

====
